---- MODULE Spec2Model ----
(***************************************************************************)
(* A model of skaffold's lint package (pkg/skaffold/lint): the run of      *)
(* GetSkaffoldYamlsLintResults over the config units of a project, the     *)
(* string-equals Dockerfile recommendations and their diffs, and the       *)
(* skaffold.yaml rule catalog with its LintConditions; of the minikube     *)
(* client of package cluster (pkg/skaffold/cluster); and of main and       *)
(* validateArgs of hack/comparisonstats.                                   *)
(***************************************************************************)
EXTENDS Integers, Sequences, FiniteSets, TLC

(***************************************************************************)
(* Bounds of the model.                                                    *)
(***************************************************************************)
\* config units returned by getConfigSet
MaxCfgs == 2
\* results one Linter.Lint call returns when it returns any
MaxRecs == 2

VARIABLES
    \* ---- GetSkaffoldYamlsLintResults ----
    cfgs,              \* what getConfigSet returns: a sequence of config units
    pc,                \* position of the run
    ci,                \* index of the config unit of the outer loop
    ai,                \* index of the artifact of the inner loop
    li,                \* index of the linter of the linter loop
    seen,              \* seen map: the Dockerfile paths met so far
    dockerfileDepMap,  \* the side-table: Dockerfile path -> dependency list
    results,           \* results of the config unit under evaluation
    l,                 \* the run-wide result list
    ret,               \* what the run returned: (list, error)
    callLog,           \* calls of getConfigSet, realWorkDir and ioutil.ReadFile, in order
    reached,           \* the (config unit, Dockerfile path) pairs the artifact loop came to
    extractLog,        \* calls of getDockerfileFileDependencies, in order
    lintLog            \* calls of Linter.Lint, in order

VARIABLES
    \* ---- SuggestRecsViaStringEquals and generateRecommendationDiff ----
    d,        \* the Dockerfile: AbsPath, RelPath, Text
    rc,       \* the RecommendedConfig catalog the recommendations are drawn from
    recs,     \* what SuggestRecsViaStringEquals returned
    diffs,    \* what generateRecommendationDiff returned, recommendation by recommendation
    spc       \* position: "input", "suggested", "diffed", "panic"

VARIABLES
    \* ---- PrintDockerfilesList (with cfgs, pc, ci, ai, seen) ----
    DockerfileRecs,   \* l.DockerfileRecs
    Dockerfiles,      \* l.Dockerfiles
    pi,               \* index i of the loop that prints the diffs
    printed,          \* calls of generateRecommendationDiff, in order, with what they returned
    printRet          \* what PrintDockerfilesList returned

VARIABLES
    \* ---- YamlFieldLinter.Lint over skaffoldYamlRules ----
    lintInputs,   \* the LintInputs of the call
    ri,           \* index of the rule of the loop
    ruleLog,      \* rule by rule: its conditions, its filter, what it added
    ruleResults,  \* the results gathered
    rpc           \* position: "rules", "done"

VARIABLES
    \* ---- two runs of GetSkaffoldYamlsLintResults over the same config units ----
    units,     \* the config units: their artifacts and their skaffold.yaml
    perm,      \* the order of the units in the second run
    run,       \* "first", "second", "done"
    oi,        \* index of the config unit of the loop
    oseen,     \* seen map of the run
    otable,    \* dockerfileDepMap of the run
    unitRecs   \* run by run, unit by unit: the rules that gave a result

VARIABLES
    \* ---- package cluster: clientImpl and the minikube binary ----
    env,          \* what the machine holds: PATH, the binary, kubeconfig, profiles
    kubeContext,  \* c.kubeContext
    isMinikube,   \* c.isMinikube
    profile,      \* c.profile
    mk,           \* var mk: err, version, path
    findOnce,     \* findOnce has run
    mkRet,        \* the last call of the client and what it returned
    detection,    \* the last run of the detection of IsMinikube: its context, its outcome
    resolvedFor   \* the c.kubeContext for which c.profile was resolved

VARIABLES
    \* ---- comparisonstats: main and validateArgs ----
    args,       \* flag.Args()
    files,      \* the paths that exist
    apc,        \* position of main
    statted,    \* the paths validateBinaries has checked with os.Stat
    validated,  \* what validateArgs returned
    conf,       \* conf.ExampleAppName, conf.ExampleSrcFile
    ran         \* the binaries main has run

loopVars == <<cfgs, pc, ci, ai, seen>>
runVars == <<li, dockerfileDepMap, results, l, ret, callLog, reached, extractLog, lintLog>>
strVars == <<d, rc, recs, diffs, spc>>
printVars == <<DockerfileRecs, Dockerfiles, pi, printed, printRet>>
ruleVars == <<lintInputs, ri, ruleLog, ruleResults, rpc>>
orderVars == <<units, perm, run, oi, oseen, otable, unitRecs>>
clusterVars == <<env, kubeContext, isMinikube, profile, mk, findOnce, mkRet, detection, resolvedFor>>
argsVars == <<args, files, apc, statted, validated, conf, ran>>
vars == <<loopVars, runVars, strVars, printVars, ruleVars, orderVars, clusterVars, argsVars>>

(***************************************************************************)
(* Paths.  A path is the sequence of its elements.                         *)
(***************************************************************************)
\* realWorkDir(): the working directory of the run
workdir == <<"w">>

RECURSIVE Clean(_)
\* filepath.Clean on a relative path without "..": the "." elements go
Clean(p) ==
    IF p = <<>> THEN <<>>
    ELSE IF Head(p) = "." THEN Clean(Tail(p))
    ELSE <<Head(p)>> \o Clean(Tail(p))

\* filepath.Join: the elements put together, then cleaned
Join(a, b) == Clean(a \o b)

\* a build artifact that is no docker artifact (a.DockerArtifact == nil)
NoDockerArtifact == [docker |-> FALSE, Workspace |-> <<>>, DockerfilePath |-> <<>>]

\* a docker artifact: its workspace and the path of its Dockerfile
DockerArtifact(ws, path) == [docker |-> TRUE, Workspace |-> ws, DockerfilePath |-> path]

\* ./Dockerfile; app/Dockerfile named from the workspace app, and from the
\* workspace . : two artifacts that join to the same path
RootDockerfile == DockerArtifact(<<".">>, <<"Dockerfile">>)
AppDockerfile == DockerArtifact(<<"app">>, <<"Dockerfile">>)
AppDockerfileFromRoot == DockerArtifact(<<".">>, <<"app", "Dockerfile">>)

\* the artifact lists a config unit may have
ArtifactLists ==
    { <<>>,
      << NoDockerArtifact >>,
      << RootDockerfile >>,
      << AppDockerfile >>,
      << AppDockerfileFromRoot >>,
      << RootDockerfile, AppDockerfile >>,
      << AppDockerfile, AppDockerfileFromRoot >> }

\* ws := filepath.Join(workdir, a.Workspace)
WsOf(a) == Join(workdir, a.Workspace)
\* fp := filepath.Join(ws, a.DockerArtifact.DockerfilePath)
FpOf(a) == Join(WsOf(a), a.DockerfilePath)

\* "main.py", "app/main.py", "main.go", "go.mod"
MainPy == <<109, 97, 105, 110, 46, 112, 121>>
AppMainPy == <<97, 112, 112, 47, 109, 97, 105, 110, 46, 112, 121>>
MainGo == <<109, 97, 105, 110, 46, 103, 111>>
GoMod == <<103, 111, 46, 109, 111, 100>>

\* docker.GetDependencies on the project's files: the files the image build
\* of Dockerfile fp copies, named relative to the workspace ws
\* (a dependency path is the sequence of its bytes)
GetDependencies(ws, fp) ==
    IF fp = <<"w", "app", "Dockerfile">>
    THEN IF ws = <<"w", "app">> THEN << MainPy >>
                                ELSE << AppMainPy >>
    ELSE << MainGo, GoMod >>

SeqsUpTo(S, n) == UNION { [1..k -> S] : k \in 0..n }

\* the config sets getConfigSet may return
ConfigUnits == [ Artifacts : ArtifactLists ]
ConfigSets == SeqsUpTo(ConfigUnits, MaxCfgs)

\* SkaffoldYamlLinters
SkaffoldYamlLinters == << "RegExpLinter", "YamlFieldLinter" >>

\* the results a Lint call on unit c by linter k may return: its first n results
LintRecs(c, k, n) == [ j \in 1..n |-> [unit |-> c, linter |-> k, n |-> j] ]

NoReturn == [returned |-> FALSE, isNil |-> TRUE, list |-> <<>>, err |-> "none"]
ReturnErr(e) == [returned |-> TRUE, isNil |-> TRUE, list |-> <<>>, err |-> e]
ReturnList(lst) == [returned |-> TRUE, isNil |-> FALSE, list |-> lst, err |-> "none"]


(***************************************************************************)
(* GetSkaffoldYamlsLintResults                                             *)
(***************************************************************************)
\* a run that forgets the seen map
AlreadySeenNever(seenSet, fp) == FALSE

\* if _, ok := seen[fp]; ok { continue }
AlreadySeen(seenSet, fp) == fp \in seenSet

\* dockerfileDepMap[fp] = deps
MapPut(m, k, v) == [ x \in DOMAIN m \cup {k} |-> IF x = k THEN v ELSE m[x] ]

\* an aggregation that puts the new results first
Append2Front(lst, more) == more \o lst

\* results = append(results, *recs...) and l = append(l, results...)
Append2(lst, more) == lst \o more

\* a run that hands back what it has gathered so far along with the error
ReturnPartialOnError(lst, e) ==
    [returned |-> TRUE, isNil |-> FALSE, list |-> lst, err |-> e]

\* if err != nil { return nil, err }
ReturnOnError(lst, e) == ReturnErr(e)

\* return &l, nil
ReturnOnSuccess(lst) == ReturnList(lst)

EmptyMap == [ x \in {} |-> <<>> ]

RunInit ==
    /\ cfgs \in ConfigSets
    /\ pc = "getConfigSet"
    /\ ci = 1
    /\ ai = 1
    /\ li = 1
    /\ seen = {}
    /\ dockerfileDepMap = EmptyMap
    /\ results = <<>>
    /\ l = <<>>
    /\ ret = NoReturn
    /\ callLog = <<>>
    /\ reached = {}
    /\ extractLog = <<>>
    /\ lintLog = <<>>

\* cfgs, err := getConfigSet(...); if err != nil { return nil, err }
GetConfigSet ==
    /\ pc = "getConfigSet"
    /\ \E ok \in BOOLEAN :
         /\ callLog' = Append(callLog, [call |-> "getConfigSet", unit |-> 0, ok |-> ok])
         /\ IF ok THEN pc' = "realWorkDir" /\ ret' = ret
            ELSE pc' = "done" /\ ret' = ReturnOnError(l, "getConfigSet")
    /\ UNCHANGED <<cfgs, ci, ai, li, seen, dockerfileDepMap, results, l,
                   reached, extractLog, lintLog>>
    /\ UNCHANGED <<strVars, printVars, ruleVars, orderVars, clusterVars, argsVars>>

\* seen := map[string]bool{}; workdir, err := realWorkDir(); l := []Result{};
\* dockerfileDepMap := map[string][]string{}
RealWorkDir ==
    /\ pc = "realWorkDir"
    /\ \E ok \in BOOLEAN :
         /\ callLog' = Append(callLog, [call |-> "realWorkDir", unit |-> 0, ok |-> ok])
         /\ IF ok THEN pc' = "cfg" /\ ret' = ret
            ELSE pc' = "done" /\ ret' = ReturnOnError(l, "realWorkDir")
    /\ seen' = {}
    /\ l' = <<>>
    /\ dockerfileDepMap' = EmptyMap
    /\ ci' = 1
    /\ UNCHANGED <<cfgs, ai, li, results, reached, extractLog, lintLog>>
    /\ UNCHANGED <<strVars, printVars, ruleVars, orderVars, clusterVars, argsVars>>

\* for _, c := range cfgs { b, err := ioutil.ReadFile(c.SourceFile) ...
ReadSourceFile ==
    /\ pc = "cfg"
    /\ ci <= Len(cfgs)
    /\ \E ok \in BOOLEAN :
         /\ callLog' = Append(callLog, [call |-> "ReadFile", unit |-> ci, ok |-> ok])
         /\ IF ok THEN pc' = "artifacts" /\ ret' = ret
            ELSE pc' = "done" /\ ret' = ReturnOnError(l, "readFile")
    /\ ai' = 1
    /\ UNCHANGED <<cfgs, ci, li, seen, dockerfileDepMap, results, l,
                   reached, extractLog, lintLog>>
    /\ UNCHANGED <<strVars, printVars, ruleVars, orderVars, clusterVars, argsVars>>

\* for _, a := range c.Build.Artifacts: an artifact that is no docker artifact,
\* or whose Dockerfile path was seen, is passed over
SkipArtifact ==
    /\ pc = "artifacts"
    /\ ai <= Len(cfgs[ci].Artifacts)
    /\ LET a == cfgs[ci].Artifacts[ai] IN
         \/ ~a.docker /\ reached' = reached
         \/ /\ a.docker
            /\ AlreadySeen(seen, FpOf(a))
            /\ reached' = reached \cup {<<ci, FpOf(a)>>}
    /\ ai' = ai + 1
    /\ UNCHANGED <<cfgs, pc, ci, li, seen, dockerfileDepMap, results, l, ret,
                   callLog, extractLog, lintLog>>
    /\ UNCHANGED <<strVars, printVars, ruleVars, orderVars, clusterVars, argsVars>>

\* seen[fp] = true; deps, err := getDockerfileFileDependencies(ws, fp, runCtx);
\* if err != nil { return nil, err }; dockerfileDepMap[fp] = deps
ExtractDependencies ==
    /\ pc = "artifacts"
    /\ ai <= Len(cfgs[ci].Artifacts)
    /\ LET a == cfgs[ci].Artifacts[ai]
           fp == FpOf(a) IN
         /\ a.docker
         /\ ~AlreadySeen(seen, fp)
         /\ seen' = seen \cup {fp}
         /\ reached' = reached \cup {<<ci, fp>>}
         /\ \/ LET deps == GetDependencies(WsOf(a), fp) IN
                 /\ extractLog' = Append(extractLog,
                        [unit |-> ci, ws |-> WsOf(a), fp |-> fp, ok |-> TRUE])
                 /\ dockerfileDepMap' = MapPut(dockerfileDepMap, fp, deps)
                 /\ ai' = ai + 1
                 /\ UNCHANGED <<pc, ret>>
            \/ /\ extractLog' = Append(extractLog,
                        [unit |-> ci, ws |-> WsOf(a), fp |-> fp, ok |-> FALSE])
               /\ pc' = "done"
               /\ ret' = ReturnOnError(l, "getDependencies")
               /\ UNCHANGED <<dockerfileDepMap, ai>>
    /\ UNCHANGED <<cfgs, ci, li, results, l, callLog, lintLog>>
    /\ UNCHANGED <<strVars, printVars, ruleVars, orderVars, clusterVars, argsVars>>

\* results := []Result{}: the artifacts of the unit are done, its linters start
StartLinters ==
    /\ pc = "artifacts"
    /\ ai > Len(cfgs[ci].Artifacts)
    /\ results' = <<>>
    /\ li' = 1
    /\ pc' = "lint"
    /\ UNCHANGED <<cfgs, ci, ai, seen, dockerfileDepMap, l, ret,
                   callLog, reached, extractLog, lintLog>>
    /\ UNCHANGED <<strVars, printVars, ruleVars, orderVars, clusterVars, argsVars>>

\* recs, err := r.Lint(LintInputs{...}, &skaffoldYamlRules);
\* if err != nil { return nil, err }; results = append(results, *recs...)
Lint ==
    /\ pc = "lint"
    /\ li <= Len(SkaffoldYamlLinters)
    /\ \/ \E n \in {0, MaxRecs} :
            LET got == LintRecs(ci, li, n) IN
            /\ lintLog' = Append(lintLog,
                   [unit |-> ci, linter |-> li, DockerfileToDepMap |-> dockerfileDepMap,
                    ok |-> TRUE, recs |-> got])
            /\ results' = Append2(results, got)
            /\ li' = li + 1
            /\ UNCHANGED <<pc, ret>>
       \/ /\ lintLog' = Append(lintLog,
                   [unit |-> ci, linter |-> li, DockerfileToDepMap |-> dockerfileDepMap,
                    ok |-> FALSE, recs |-> <<>>])
          /\ pc' = "done"
          /\ ret' = ReturnOnError(l, "lint")
          /\ UNCHANGED <<results, li>>
    /\ UNCHANGED <<cfgs, ci, ai, seen, dockerfileDepMap, l, callLog, reached,
                   extractLog>>
    /\ UNCHANGED <<strVars, printVars, ruleVars, orderVars, clusterVars, argsVars>>

\* l = append(l, results...): the unit is done, the next one starts
NextConfig ==
    /\ pc = "lint"
    /\ li > Len(SkaffoldYamlLinters)
    /\ l' = Append2(l, results)
    /\ ci' = ci + 1
    /\ pc' = "cfg"
    /\ UNCHANGED <<cfgs, ai, li, seen, dockerfileDepMap, results, ret,
                   callLog, reached, extractLog, lintLog>>
    /\ UNCHANGED <<strVars, printVars, ruleVars, orderVars, clusterVars, argsVars>>

\* return &l, nil
Return ==
    /\ pc = "cfg"
    /\ ci > Len(cfgs)
    /\ ret' = ReturnOnSuccess(l)
    /\ pc' = "done"
    /\ UNCHANGED <<cfgs, ci, ai, li, seen, dockerfileDepMap, results, l,
                   callLog, reached, extractLog, lintLog>>
    /\ UNCHANGED <<strVars, printVars, ruleVars, orderVars, clusterVars, argsVars>>

RunNext ==
    \/ GetConfigSet
    \/ RealWorkDir
    \/ ReadSourceFile
    \/ SkipArtifact
    \/ ExtractDependencies
    \/ StartLinters
    \/ Lint
    \/ NextConfig
    \/ Return



(***************************************************************************)
(* Properties of GetSkaffoldYamlsLintResults                               *)
(***************************************************************************)
\* the Dockerfile paths of the docker artifacts of a config set
AllDockerfilePaths(cs) ==
    UNION { { FpOf(cs[c].Artifacts[a]) :
                a \in { x \in DOMAIN cs[c].Artifacts : cs[c].Artifacts[x].docker } } :
            c \in DOMAIN cs }

\* how often the dependency extractor was invoked for path fp
ExtractCount(fp) == Cardinality({ i \in DOMAIN extractLog : extractLog[i].fp = fp })

ReachedPaths == { x[2] : x \in reached }

\* C4: the dependency extractor is invoked at most once for each distinct
\* Dockerfile path, exactly once for each path the run reached, and the
\* side-table holds one entry for each extraction that succeeded.
C4_ExtractOncePerPath ==
    /\ \A fp \in AllDockerfilePaths(cfgs) : ExtractCount(fp) <= 1
    /\ \A fp \in ReachedPaths : ExtractCount(fp) = 1
    /\ \A i \in DOMAIN extractLog : extractLog[i].fp \in ReachedPaths
    /\ DOMAIN dockerfileDepMap =
         { extractLog[i].fp : i \in { j \in DOMAIN extractLog : extractLog[j].ok } }

\* two config units with different (workspace, Dockerfile path) pairs that
\* name the same Dockerfile were both evaluated, with one extraction for it
C4_Witness ==
    /\ pc = "done"
    /\ ~ret.isNil
    /\ \E fp \in ReachedPaths :
         /\ <<1, fp>> \in reached
         /\ <<2, fp>> \in reached
         /\ cfgs[1].Artifacts[1].Workspace # cfgs[2].Artifacts[1].Workspace
         /\ ExtractCount(fp) = 1
         /\ fp \in DOMAIN dockerfileDepMap

\* C5: the side-table is complete and frozen before rule evaluation begins:
\* no entry is added after the first Lint call, and the side-table of every
\* LintInputs has an entry for every Dockerfile artifact of every config unit.
C5_TableCompleteBeforeLint ==
    \A i \in DOMAIN lintLog :
        /\ DOMAIN dockerfileDepMap = DOMAIN lintLog[1].DockerfileToDepMap
        /\ AllDockerfilePaths(cfgs) \subseteq DOMAIN lintLog[i].DockerfileToDepMap

\* C6: a run that ends with an extraction error has invoked no linter.
C6_NoLintBeforeExtractionError ==
    (pc = "done" /\ ret.err = "getDependencies") => lintLog = <<>>

LintCalled(c, k) ==
    \E i \in DOMAIN lintLog : lintLog[i].unit = c /\ lintLog[i].linter = k

\* C7: when a Lint call returns an error, the linters after it are still run
\* for that config unit, every later config unit is still evaluated, and the
\* error is returned to the caller.
C7_LintErrorIsolated ==
    \A i \in DOMAIN lintLog :
        (pc = "done" /\ ~lintLog[i].ok) =>
            /\ ret.err = "lint"
            /\ \A k \in DOMAIN SkaffoldYamlLinters :
                   k > lintLog[i].linter => LintCalled(lintLog[i].unit, k)
            /\ \A c \in DOMAIN cfgs : \A k \in DOMAIN SkaffoldYamlLinters :
                   c > lintLog[i].unit => LintCalled(c, k)

\* some call of the run failed
AnyFailure ==
    \/ \E i \in DOMAIN callLog : ~callLog[i].ok
    \/ \E i \in DOMAIN extractLog : ~extractLog[i].ok
    \/ \E i \in DOMAIN lintLog : ~lintLog[i].ok

\* C8: the run is all-or-nothing: it returns a list only when the source file
\* of every config unit was read and every linter ran on it without error; on
\* any failure it returns a nil list with the error, never a partial list.
C8_AllOrNothing ==
    pc = "done" =>
        /\ ret.returned
        /\ ret.isNil <=> AnyFailure
        /\ ret.isNil <=> ret.err # "none"
        /\ ret.isNil => ret.list = <<>>
        /\ ~ret.isNil =>
              \A c \in DOMAIN cfgs :
                  /\ \E i \in DOMAIN callLog :
                         callLog[i] = [call |-> "ReadFile", unit |-> c, ok |-> TRUE]
                  /\ \A k \in DOMAIN SkaffoldYamlLinters :
                         \E i \in DOMAIN lintLog :
                             /\ lintLog[i].unit = c
                             /\ lintLog[i].linter = k
                             /\ lintLog[i].ok

\* the run gathered results of its first config unit, a linter failed on the
\* second one, and nothing of what was gathered is returned
C8_Witness ==
    /\ pc = "done"
    /\ l # <<>>
    /\ ret.isNil
    /\ ret.err = "lint"

\* the results the Lint call of linter k on config unit c returned
RecsOf(c, k) ==
    LET i == CHOOSE j \in DOMAIN lintLog : lintLog[j].unit = c /\ lintLog[j].linter = k
    IN  lintLog[i].recs

RECURSIVE LintersFrom(_, _)
\* the results of config unit c, from linter k on, in SkaffoldYamlLinters order
LintersFrom(c, k) ==
    IF k > Len(SkaffoldYamlLinters) THEN <<>>
    ELSE RecsOf(c, k) \o LintersFrom(c, k + 1)

RECURSIVE UnitsFrom(_)
\* the results of the config units from c on, in discovery order
UnitsFrom(c) ==
    IF c > Len(cfgs) THEN <<>>
    ELSE LintersFrom(c, 1) \o UnitsFrom(c + 1)

\* C9: the list a successful run returns is the concatenation, over the config
\* units in discovery order and the linters in SkaffoldYamlLinters order, of
\* the results each Lint call returned, in the order it returned them.
C9_ResultOrder ==
    (pc = "done" /\ ~ret.isNil) =>
        /\ Len(lintLog) = Len(cfgs) * Len(SkaffoldYamlLinters)
        /\ \A c \in DOMAIN cfgs : \A k \in DOMAIN SkaffoldYamlLinters :
               Cardinality({ i \in DOMAIN lintLog :
                               lintLog[i].unit = c /\ lintLog[i].linter = k }) = 1
        /\ ret.list = UnitsFrom(1)

\* a successful run over two config units in which every Lint call returned
\* several results
C9_Witness ==
    /\ pc = "done"
    /\ ~ret.isNil
    /\ Len(cfgs) = 2
    /\ \A i \in DOMAIN lintLog : Len(lintLog[i].recs) >= 2
    /\ Len(ret.list) = 4 * MaxRecs


(***************************************************************************)
(* Text.  A string is the sequence of its bytes, a Dockerfile text too.    *)
(***************************************************************************)
\* a continuation byte of UTF-8
IsCont(b) == b >= 128 /\ b <= 191

\* unicode.ToUpper, on the runes of ASCII and Latin-1 and on U+0131 and U+017F,
\* whose upper case is an ASCII letter; every other rune is taken as caseless
UpperRune(r) ==
    IF r >= 97 /\ r <= 122 THEN r - 32
    ELSE IF r = 181 THEN 924
    ELSE IF r >= 224 /\ r <= 254 /\ r # 247 THEN r - 32
    ELSE IF r = 255 THEN 376
    ELSE IF r = 305 THEN 73
    ELSE IF r = 383 THEN 83
    ELSE r

\* utf8.EncodeRune
EncodeRune(r) ==
    IF r < 128 THEN << r >>
    ELSE IF r < 2048 THEN << 192 + (r \div 64), 128 + (r % 64) >>
    ELSE IF r < 65536
         THEN << 224 + (r \div 4096), 128 + ((r \div 64) % 64), 128 + (r % 64) >>
    ELSE << 240 + (r \div 262144), 128 + ((r \div 4096) % 64),
            128 + ((r \div 64) % 64), 128 + (r % 64) >>

\* the number of bytes of the UTF-8 sequence s starts with, 0 when its first
\* byte starts no valid sequence (utf8.DecodeRuneInString then yields
\* RuneError with width 1)
RuneWidth(s) ==
    LET b == s[1] IN
    IF b < 128 THEN 1
    ELSE IF b >= 194 /\ b <= 223 /\ Len(s) >= 2 /\ IsCont(s[2]) THEN 2
    ELSE IF /\ b >= 224 /\ b <= 239 /\ Len(s) >= 3 /\ IsCont(s[2]) /\ IsCont(s[3])
            /\ (b = 224 => s[2] >= 160)
            /\ (b = 237 => s[2] <= 159) THEN 3
    ELSE IF /\ b >= 240 /\ b <= 244 /\ Len(s) >= 4
            /\ IsCont(s[2]) /\ IsCont(s[3]) /\ IsCont(s[4])
            /\ (b = 240 => s[2] >= 144)
            /\ (b = 244 => s[2] <= 143) THEN 4
    ELSE 0

\* the rune of a valid UTF-8 sequence of w bytes at the head of s
DecodeRune(s, w) ==
    IF w = 1 THEN s[1]
    ELSE IF w = 2 THEN (s[1] - 192) * 64 + (s[2] - 128)
    ELSE IF w = 3 THEN (s[1] - 224) * 4096 + (s[2] - 128) * 64 + (s[3] - 128)
    ELSE (s[1] - 240) * 262144 + (s[2] - 128) * 4096 + (s[3] - 128) * 64 + (s[4] - 128)

\* utf8.RuneError, U+FFFD
RuneError == 65533

\* the bytes of s from index i on
From(s, i) == SubSeq(s, i, Len(s))

\* byte i of s is inside the UTF-8 sequence of a rune that starts before it:
\* a continuation byte, within the width of the sequence a lead byte at most
\* three places before it starts
InsideRune(s, i) ==
    /\ IsCont(s[i])
    /\ \E j \in 1..(i - 1) :
           /\ i - j <= 3
           /\ ~IsCont(s[j])
           /\ RuneWidth(From(s, j)) > i - j

\* what the rune that starts at byte i of s becomes: its upper case,
\* re-encoded; U+FFFD for a byte that starts no valid sequence
UpperAt(s, i) ==
    IF InsideRune(s, i) THEN <<>>
    ELSE LET w == RuneWidth(From(s, i)) IN
         IF w = 0 THEN EncodeRune(RuneError)
         ELSE EncodeRune(UpperRune(DecodeRune(From(s, i), w)))

RECURSIVE ConcatRange(_, _, _)
\* pieces[lo] \o ... \o pieces[hi]
ConcatRange(pieces, lo, hi) ==
    IF lo > hi THEN <<>>
    ELSE IF lo = hi THEN pieces[lo]
    ELSE LET mid == (lo + hi) \div 2 IN
         ConcatRange(pieces, lo, mid) \o ConcatRange(pieces, mid + 1, hi)

\* strings.ToUpper: rune by rune, each rune re-encoded; a byte that starts no
\* valid UTF-8 sequence comes out as the three bytes of U+FFFD
ToUpper(s) ==
    ConcatRange([ i \in 1..Len(s) |-> UpperAt(s, i) ], 1, Len(s))

\* strings.Index: the first index (from 0) at which sub occurs in s, -1 if none
Index(s, sub) ==
    LET at == { i \in 0..(Len(s) - Len(sub)) : SubSeq(s, i + 1, i + Len(sub)) = sub } IN
    IF at = {} THEN -1
    ELSE CHOOSE i \in at : \A j \in at : i <= j

\* a search that tells upper from lower case
MatchIndexCaseSensitive(text, template) == Index(text, template)

\* strings.Index(strings.ToUpper(d.Text), strings.ToUpper(rec.FlaggedConfig.ConfigTemplate))
MatchIndex(text, template) == Index(ToUpper(text), ToUpper(template))

(***************************************************************************)
(* Recommendations                                                         *)
(***************************************************************************)
\* type ConfigOpt
ConfigOpt(action, template, explanation) ==
    [Action |-> action, Path |-> <<>>, ConfigTemplate |-> template,
     TextStartIndex |-> 0, TextEndIndex |-> 0, Explanation |-> explanation]

\* type Recommendation
Recommendation(flagged, recommended) ==
    [FlaggedConfig |-> flagged, RecommendedConfig |-> recommended]

\* "Copy . ."
CopyAll == <<67, 111, 112, 121, 32, 46, 32, 46>>
\* "Copy $MIN_SET_OF_NECESSARY_SOURCE_FILES_FOR_IMAGE ."
CopyMinSet ==
    <<67, 111, 112, 121, 32, 36, 77, 73, 78, 95, 83, 69, 84, 95, 79, 70, 95, 78, 69,
      67, 69, 83, 83, 65, 82, 89, 95, 83, 79, 85, 82, 67, 69, 95, 70, 73, 76, 69, 83,
      95, 70, 79, 82, 95, 73, 77, 65, 71, 69, 32, 46>>
\* "Testing what only flagged recommendation w/ no rec looks like"
TestingFlagOnly ==
    <<84, 101, 115, 116, 105, 110, 103, 32, 119, 104, 97, 116, 32, 111, 110, 108, 121,
      32, 102, 108, 97, 103, 103, 101, 100, 32, 114, 101, 99, 111, 109, 109, 101, 110,
      100, 97, 116, 105, 111, 110, 32, 119, 47, 32, 110, 111, 32, 114, 101, 99, 32,
      108, 111, 111, 107, 115, 32, 108, 105, 107, 101>>

\* var StringEqualsRecs
StringEqualsRecs ==
    << Recommendation(ConfigOpt("Replace", CopyAll, ""),
                      ConfigOpt("Replace", CopyMinSet, "Found 'COPY . .', ...")),
       Recommendation(ConfigOpt("Replace", TestingFlagOnly, ""),
                      ConfigOpt("Noop", <<>>, "")) >>

\* the body of the loop of SuggestRecsViaStringEquals: the recommendations
\* catalog entry rec adds for Dockerfile df
SuggestOne(rec, df) ==
    LET idx == MatchIndex(df.Text, rec.FlaggedConfig.ConfigTemplate) IN
    IF idx # -1
    THEN << [ FlaggedConfig |->
                [rec.FlaggedConfig EXCEPT
                    !.TextStartIndex = idx,
                    !.Path = df.AbsPath,
                    !.TextEndIndex = idx + Len(rec.FlaggedConfig.ConfigTemplate)],
              RecommendedConfig |->
                [rec.RecommendedConfig EXCEPT !.Path = df.AbsPath] ] >>
    ELSE <<>>

RECURSIVE SuggestRecsViaStringEquals(_, _)
\* func (rc *RecommendedConfig) SuggestRecsViaStringEquals(d Dockerfile)
SuggestRecsViaStringEquals(catalog, df) ==
    IF catalog = <<>> THEN <<>>
    ELSE SuggestOne(Head(catalog), df) \o SuggestRecsViaStringEquals(Tail(catalog), df)


(***************************************************************************)
(* generateRecommendationDiff                                              *)
(***************************************************************************)
\* type Dockerfile
Dockerfile(abs, rel, text) == [AbsPath |-> abs, RelPath |-> rel, Text |-> text]

RECURSIVE SplitLines(_)
\* the lines of a text, each with the newline that ends it; a last line that
\* no newline ends is a line too
SplitLines(text) ==
    IF text = <<>> THEN <<>>
    ELSE LET nl == { i \in DOMAIN text : text[i] = 10 } IN
         IF nl = {} THEN << text >>
         ELSE LET i == CHOOSE x \in nl : \A y \in nl : x <= y IN
              << SubSeq(text, 1, i) >> \o SplitLines(SubSeq(text, i + 1, Len(text)))

\* a line of the diff output: a header line (kind "diff", "index", "---",
\* "+++", "@@", with the path it names) or a line of the body (kind "-", "+"
\* or " ", with the text line it carries)
DiffLine(kind, path, text) == [kind |-> kind, path |-> path, text |-> text]

\* the number of leading lines two line lists share
RECURSIVE CommonPrefix(_, _)
CommonPrefix(a, b) ==
    IF a = <<>> \/ b = <<>> \/ Head(a) # Head(b) THEN 0
    ELSE 1 + CommonPrefix(Tail(a), Tail(b))

Reverse(q) == [ i \in 1..Len(q) |-> q[Len(q) + 1 - i] ]

Tagged(kind, lines) == [ i \in 1..Len(lines) |-> DiffLine(kind, <<>>, lines[i]) ]

\* differ.Diff: the line diff of two texts as one hunk: the lines both share at
\* the start, the lines of a that go, the lines of b that come, the lines
\* both share at the end
DiffLines(a, b) ==
    LET p   == CommonPrefix(a, b)
        ra  == SubSeq(a, p + 1, Len(a))
        rb  == SubSeq(b, p + 1, Len(b))
        q   == CommonPrefix(Reverse(ra), Reverse(rb))
    IN  Tagged(" ", SubSeq(a, 1, p))
        \o Tagged("-", SubSeq(ra, 1, Len(ra) - q))
        \o Tagged("+", SubSeq(rb, 1, Len(rb) - q))
        \o Tagged(" ", SubSeq(ra, Len(ra) - q + 1, Len(ra)))

\* w.Diff(a, b): the header the diff library writes (the diff --git line, the
\* index line with the hashes and the mode, the two path lines, the hunk
\* line), then the body
WriterDiff(aPath, aText, bPath, bText) ==
    << DiffLine("diff", <<aPath, bPath>>, <<>>),
       DiffLine("index", <<>>, <<>>),
       DiffLine("---", <<aPath>>, <<>>),
       DiffLine("+++", <<bPath>>, <<>>),
       DiffLine("@@", <<>>, <<>>) >>
    \o DiffLines(SplitLines(aText), SplitLines(bText))

\* re.ReplaceAllString(out.String(), "") with re = (?m)[\r\n]+^index.*$ :
\* every line after the first that starts with "index" goes, with the line
\* break before it.  Of the lines the writer emits only the index line starts
\* with "index": the others start with "diff", "-", "+", "@" or " ".
StripIndexLines(out) ==
    LET keep(i) == i = 1 \/ out[i].kind # "index"
        RECURSIVE Pick(_)
        Pick(i) == IF i > Len(out) THEN <<>>
                   ELSE (IF keep(i) THEN << out[i] >> ELSE <<>>) \o Pick(i + 1)
    IN  Pick(1)

\* the bytes of a path element
NameBytes(name) ==
    IF name = "Dockerfile" THEN <<68, 111, 99, 107, 101, 114, 102, 105, 108, 101>>
    ELSE IF name = "app" THEN <<97, 112, 112>>
    ELSE <<119>>

\* the bytes of a path of the diff: its elements with "/" between them, then
\* its suffix, ".orig" or none
PathText(p) ==
    ConcatRange([ i \in 1..Len(p.path) |->
                    (IF i = 1 THEN <<>> ELSE <<47>>) \o NameBytes(p.path[i]) ],
                1, Len(p.path))
    \o (IF p.suffix = ".orig" THEN <<46, 111, 114, 105, 103>> ELSE <<>>)

\* a text line without the newline that ends it
Chomp(line) ==
    IF line # <<>> /\ line[Len(line)] = 10 THEN SubSeq(line, 1, Len(line) - 1) ELSE line

\* the bytes of one line of the writer's output, without its line break:
\* "diff --git a b", "index " and the hashes and mode, "--- a", "+++ b",
\* "@@" and the ranges, or a line of the body behind its "-", "+" or " "
LineText(line) ==
    IF line.kind = "diff"
    THEN <<100, 105, 102, 102, 32, 45, 45, 103, 105, 116, 32>>
             \o PathText(line.path[1]) \o <<32>> \o PathText(line.path[2])
    ELSE IF line.kind = "index" THEN <<105, 110, 100, 101, 120, 32, 46, 46>>
    ELSE IF line.kind = "---" THEN <<45, 45, 45, 32>> \o PathText(line.path[1])
    ELSE IF line.kind = "+++" THEN <<43, 43, 43, 32>> \o PathText(line.path[1])
    ELSE IF line.kind = "@@" THEN <<64, 64, 32, 64, 64>>
    ELSE IF line.kind = "-" THEN <<45>> \o Chomp(line.text)
    ELSE IF line.kind = "+" THEN <<43>> \o Chomp(line.text)
    ELSE <<32>> \o Chomp(line.text)

\* out.String(): the lines of the output, a line break after each
OutputText(lines) ==
    ConcatRange([ i \in 1..Len(lines) |-> LineText(lines[i]) \o <<10>> ], 1, Len(lines))

\* "index"
IndexWord == <<105, 110, 100, 101, 120>>

\* a line of text starts at place j (from 1), after a newline, with "index"
\* (the ^index of the expression; the first line is after no newline)
IndexLineAt(text, j) ==
    /\ j > 1
    /\ text[j - 1] = 10
    /\ j + Len(IndexWord) - 1 <= Len(text)
    /\ SubSeq(text, j, j + Len(IndexWord) - 1) = IndexWord

\* an expression without the ^: "index" anywhere in a line
MatchedAnywhere(text) ==
    { k \in DOMAIN text :
        \E j \in DOMAIN text :
            /\ j + Len(IndexWord) - 1 <= Len(text)
            /\ SubSeq(text, j, j + Len(IndexWord) - 1) = IndexWord
            /\ k >= j /\ \A m \in j..k : text[m] # 10 }

\* the bytes a match of (?m)[\r\n]+^index.*$ takes away: those of the run of
\* line breaks before a line that starts with "index", and those of that
\* line up to its own line break
Matched(text) ==
    { k \in DOMAIN text :
        \E j \in DOMAIN text :
            /\ IndexLineAt(text, j)
            /\ \/ k < j /\ \A m \in k..(j - 1) : text[m] \in {10, 13}
               \/ k >= j /\ \A m \in j..k : text[m] # 10 }

\* re.ReplaceAllString(out.String(), "")
ReplaceIndexLines(text) ==
    LET gone == Matched(text) IN
    ConcatRange([ i \in 1..Len(text) |-> IF i \in gone THEN <<>> ELSE << text[i] >> ],
                1, Len(text))

\* a splice that puts the replacement in and leaves the flagged text behind it
SpliceKeepFlagged(text, start, end, replacement) ==
    SubSeq(text, 1, start) \o replacement \o SubSeq(text, start + 1, Len(text))

\* d.Text[:start] + replacement + d.Text[end:]
Splice(text, start, end, replacement) ==
    SubSeq(text, 1, start) \o replacement \o SubSeq(text, end + 1, Len(text))

\* a slicing that also gives up on an empty span
SlicePanicsOnEmptySpan(text, start, end) ==
    start < 0 \/ start >= end \/ end > Len(text)

\* the slice expressions d.Text[:start] and d.Text[end:] panic when an index
\* is out of range
SlicePanics(text, start, end) ==
    start < 0 \/ start > Len(text) \/ end < 0 \/ end > Len(text)

\* the path with ".orig" put after its last element
OrigPath(path) == [path |-> path, suffix |-> ".orig"]
PlainPath(path) == [path |-> path, suffix |-> ""]

\* func generateRecommendationDiff(d Dockerfile, r *Recommendation) string
generateRecommendationDiff(df, r) ==
    LET start == r.FlaggedConfig.TextStartIndex
        end   == r.FlaggedConfig.TextEndIndex IN
    IF SlicePanics(df.Text, start, end)
    THEN [panic |-> TRUE, lines |-> <<>>, text |-> <<>>]
    ELSE LET s == Splice(df.Text, start, end, r.RecommendedConfig.ConfigTemplate) IN
         LET out == WriterDiff(OrigPath(df.RelPath), df.Text, PlainPath(df.RelPath), s) IN
         [panic |-> FALSE,
          lines |-> StripIndexLines(out),
          text  |-> ReplaceIndexLines(OutputText(out))]


(***************************************************************************)
(* The string-equals recommendations of one Dockerfile, and their diffs    *)
(***************************************************************************)
\* length of the generated Dockerfile texts
MaxTextLen == 3
\* length of the generated templates
MaxTemplateLen == 1

\* the bytes of the generated texts: "c", "I", and 0xC4, 0xB1, the two bytes
\* of U+0131 (dotless i)
TextBytes == {99, 73, 196, 177}
\* the bytes of the generated templates: "c", "I"
TemplateBytes == {99, 73}

\* "FROM x\nCOPY . .\n"
ScenarioText == <<70, 82, 79, 77, 32, 120, 10, 67, 79, 80, 89, 32, 46, 32, 46, 10>>
\* "Copy $SRC ."
CopySrc == <<67, 111, 112, 121, 32, 36, 83, 82, 67, 32, 46>>
\* "COPY . .\n" and "Copy $SRC .\n", the lines of the scenario's diff
ScenarioRemovedLine == <<67, 79, 80, 89, 32, 46, 32, 46, 10>>
ScenarioAddedLine == <<67, 111, 112, 121, 32, 36, 83, 82, 67, 32, 46, 10>>

\* a string-equals rule flagging "Copy . ." with replacement "Copy $SRC ."
ScenarioRecs ==
    << Recommendation(ConfigOpt("Replace", CopyAll, ""), ConfigOpt("Replace", CopySrc, "")) >>

\* a generated rule: template t is flagged, "X" is put in its place
GeneratedRule(t) ==
    Recommendation(ConfigOpt("Replace", t, ""), ConfigOpt("Replace", <<88>>, ""))

\* a generated rule that flags template t and offers nothing in its place
DeletingRule(t) ==
    Recommendation(ConfigOpt("Replace", t, ""), ConfigOpt("Noop", <<>>, ""))

\* "index\nindex\n", a text whose lines start with "index"
IndexText == <<105, 110, 100, 101, 120, 10, 105, 110, 100, 101, 120, 10>>

Texts == SeqsUpTo(TextBytes, MaxTextLen) \cup {ScenarioText, IndexText}
Templates == SeqsUpTo(TemplateBytes, MaxTemplateLen)
Catalogs ==
    {StringEqualsRecs, ScenarioRecs}
    \cup { << GeneratedRule(t) >> : t \in Templates }
    \cup { << GeneratedRule(t), GeneratedRule(u) >> : t \in Templates, u \in Templates }
    \cup { << DeletingRule(t) >> : t \in Templates }

StrIdle ==
    /\ d = Dockerfile(<<>>, <<>>, <<>>)
    /\ rc = <<>>
    /\ recs = <<>>
    /\ diffs = <<>>
    /\ spc = "idle"

LoopIdle ==
    /\ cfgs = <<>>
    /\ pc = "idle"
    /\ ci = 1
    /\ ai = 1
    /\ seen = {}

RunIdle ==
    /\ li = 1
    /\ dockerfileDepMap = EmptyMap
    /\ results = <<>>
    /\ l = <<>>
    /\ ret = NoReturn
    /\ callLog = <<>>
    /\ reached = {}
    /\ extractLog = <<>>
    /\ lintLog = <<>>

StrInit ==
    /\ \E text \in Texts : d = Dockerfile(<<"w", "Dockerfile">>, <<"Dockerfile">>, text)
    /\ rc \in Catalogs
    /\ recs = <<>>
    /\ diffs = <<>>
    /\ spc = "input"

\* recs, err := rc.SuggestRecsViaStringEquals(d)
Suggest ==
    /\ spc = "input"
    /\ recs' = SuggestRecsViaStringEquals(rc, d)
    /\ spc' = "suggested"
    /\ UNCHANGED <<d, rc, diffs>>
    /\ UNCHANGED <<loopVars, runVars, printVars, ruleVars, orderVars, clusterVars, argsVars>>

\* a diff step that keeps the modified buffer as the text of the Dockerfile
DockerfileAfterDiffChained(df, r) ==
    IF SlicePanics(df.Text, r.FlaggedConfig.TextStartIndex, r.FlaggedConfig.TextEndIndex)
    THEN df
    ELSE [df EXCEPT !.Text = Splice(df.Text, r.FlaggedConfig.TextStartIndex,
                                    r.FlaggedConfig.TextEndIndex,
                                    r.RecommendedConfig.ConfigTemplate)]

\* the caller's Dockerfile after generateRecommendationDiff(d, r): d is a
\* parameter passed by value, the modified buffer is the local s
DockerfileAfterDiff(df, r) == df

\* the caller's Recommendation after generateRecommendationDiff(d, r): the
\* function reads *r and assigns to no field of it
RecommendationAfterDiff(df, r) == r

\* generateRecommendationDiff(d, &recs[i]) for the next recommendation
Diff ==
    /\ spc = "suggested"
    /\ Len(diffs) < Len(recs)
    /\ LET i   == Len(diffs) + 1
           out == generateRecommendationDiff(d, recs[i]) IN
         /\ diffs' = Append(diffs, out)
         /\ spc' = IF out.panic THEN "panic" ELSE spc
         /\ d' = DockerfileAfterDiff(d, recs[i])
         /\ recs' = [recs EXCEPT ![i] = RecommendationAfterDiff(d, recs[i])]
    /\ UNCHANGED rc
    /\ UNCHANGED <<loopVars, runVars, printVars, ruleVars, orderVars, clusterVars, argsVars>>

\* every recommendation has its diff
Diffed ==
    /\ spc = "suggested"
    /\ Len(diffs) = Len(recs)
    /\ spc' = "diffed"
    /\ UNCHANGED <<d, rc, recs, diffs>>
    /\ UNCHANGED <<loopVars, runVars, printVars, ruleVars, orderVars, clusterVars, argsVars>>

StrNext ==
    \/ Suggest
    \/ Diff
    \/ Diffed

(***************************************************************************)
(* Properties of SuggestRecsViaStringEquals                                *)
(***************************************************************************)
\* template occurs in text at index i (from 0), ignoring case
OccursAt(text, template, i) ==
    /\ i + Len(template) <= Len(text)
    /\ ToUpper(SubSeq(text, i + 1, i + Len(template))) = ToUpper(template)

\* the smallest index at which template occurs in text ignoring case, -1 if none
FirstOccurrence(text, template) ==
    LET at == { i \in 0..Len(text) : OccursAt(text, template, i) } IN
    IF at = {} THEN -1 ELSE CHOOSE i \in at : \A j \in at : i <= j

\* the flagged spans of a list of recommendations
Spans(rs) ==
    [ i \in 1..Len(rs) |->
        [template |-> rs[i].FlaggedConfig.ConfigTemplate,
         start |-> rs[i].FlaggedConfig.TextStartIndex,
         end |-> rs[i].FlaggedConfig.TextEndIndex] ]

RECURSIVE FirstOccurrenceSpans(_, _)
\* entry by entry of the catalog: the span of the first occurrence of its
\* template in the text, when there is one
FirstOccurrenceSpans(catalog, text) ==
    IF catalog = <<>> THEN <<>>
    ELSE LET t == Head(catalog).FlaggedConfig.ConfigTemplate
             i == FirstOccurrence(text, t) IN
         (IF i = -1 THEN <<>> ELSE << [template |-> t, start |-> i, end |-> i + Len(t)] >>)
         \o FirstOccurrenceSpans(Tail(catalog), text)

\* C1: a catalog entry yields a recommendation iff its template occurs in the
\* Dockerfile text ignoring case, and then the flagged span starts at the
\* first such occurrence and is as long as the template.
C1_FirstOccurrenceSpan ==
    spc # "input" => Spans(recs) = FirstOccurrenceSpans(rc, d.Text)

\* the added and the removed lines of a diff
LinesOfKind(out, kind) ==
    LET RECURSIVE Pick(_)
        Pick(i) == IF i > Len(out.lines) THEN <<>>
                   ELSE (IF out.lines[i].kind = kind THEN << out.lines[i].text >> ELSE <<>>)
                        \o Pick(i + 1)
    IN  Pick(1)

InScenario == d.Text = ScenarioText /\ rc = ScenarioRecs

\* C2 (as stated): in the scenario one recommendation comes out, flagged
\* from 7 to 16, and its diff takes out the line "COPY . ." and puts in the
\* line "Copy $SRC .".
C2_ScenarioAsStated ==
    (InScenario /\ spc = "diffed") =>
        /\ Len(recs) = 1
        /\ recs[1].FlaggedConfig.TextStartIndex = 7
        /\ recs[1].FlaggedConfig.TextEndIndex = 16
        /\ Len(diffs) = 1
        /\ LinesOfKind(diffs[1], "-") = << ScenarioRemovedLine >>
        /\ LinesOfKind(diffs[1], "+") = << ScenarioAddedLine >>

\* C2 (amended): in the scenario one recommendation comes out, flagged from
\* 7 to 15 (the 8 bytes of "COPY . ."), and its diff takes out the line
\* "COPY . ." and puts in the line "Copy $SRC .".
C2_Scenario ==
    (InScenario /\ spc = "diffed") =>
        /\ Len(recs) = 1
        /\ recs[1].FlaggedConfig.TextStartIndex = 7
        /\ recs[1].FlaggedConfig.TextEndIndex = 15
        /\ Len(diffs) = 1
        /\ ~diffs[1].panic
        /\ LinesOfKind(diffs[1], "-") = << ScenarioRemovedLine >>
        /\ LinesOfKind(diffs[1], "+") = << ScenarioAddedLine >>

\* the scenario ran to its end
C2_Witness == InScenario /\ spc = "diffed" /\ Len(diffs) = 1


(***************************************************************************)
(* PrintDockerfilesList                                                    *)
(***************************************************************************)
\* "FROM x\n"
FromOnlyText == <<70, 82, 79, 77, 32, 120, 10>>
\* "# testing what only flagged recommendation w/ no rec looks like\nFROM x\n"
FlagOnlyText ==
    <<35, 32, 116, 101, 115, 116, 105, 110, 103, 32, 119, 104, 97, 116, 32, 111, 110,
      108, 121, 32, 102, 108, 97, 103, 103, 101, 100, 32, 114, 101, 99, 111, 109, 109,
      101, 110, 100, 97, 116, 105, 111, 110, 32, 119, 47, 32, 110, 111, 32, 114, 101,
      99, 32, 108, 111, 111, 107, 115, 32, 108, 105, 107, 101, 10, 70, 82, 79, 77, 32,
      120, 10>>
\* "FROM x\ncopy . .\n# TESTING WHAT ONLY FLAGGED RECOMMENDATION W/ NO REC LOOKS LIKE\n"
CopyAndFlagText ==
    <<70, 82, 79, 77, 32, 120, 10, 99, 111, 112, 121, 32, 46, 32, 46, 10, 35, 32, 84,
      69, 83, 84, 73, 78, 71, 32, 87, 72, 65, 84, 32, 79, 78, 76, 89, 32, 70, 76, 65,
      71, 71, 69, 68, 32, 82, 69, 67, 79, 77, 77, 69, 78, 68, 65, 84, 73, 79, 78, 32,
      87, 47, 32, 78, 79, 32, 82, 69, 67, 32, 76, 79, 79, 75, 83, 32, 76, 73, 75, 69,
      10>>

\* the texts a Dockerfile of the project may hold
DockerfileTexts == { ScenarioText, FromOnlyText, FlagOnlyText, CopyAndFlagText }

\* a regex-based generator that returns a recommendation
regexpRecommendationsOne ==
    << Recommendation(ConfigOpt("Replace", CopyAll, ""), ConfigOpt("Replace", CopySrc, "")) >>

\* func regexpRecommendations() (*[]Recommendation, error)
regexpRecommendations == <<>>

\* func graphRecommendations() (*[]Recommendation, error)
graphRecommendations == <<>>

\* func getDockerfileRecommendations(d Dockerfile) (*[]Recommendation, error)
getDockerfileRecommendations(df) ==
    SuggestRecsViaStringEquals(StringEqualsRecs, df)
    \o regexpRecommendations
    \o graphRecommendations

PrintIdle ==
    /\ DockerfileRecs = <<>>
    /\ Dockerfiles = <<>>
    /\ pi = 1
    /\ printed = <<>>
    /\ printRet = "none"

PrintInit ==
    /\ cfgs \in ConfigSets
    /\ pc = "getConfigSet"
    /\ ci = 1
    /\ ai = 1
    /\ seen = {}
    /\ PrintIdle

\* cfgs, err := inspect.GetConfigSet(...); if err != nil { return formatter.WriteErr(err) }
PrintGetConfigSet ==
    /\ pc = "getConfigSet"
    /\ \E ok \in BOOLEAN :
         IF ok THEN pc' = "realWorkDir" /\ printRet' = printRet
         ELSE pc' = "done" /\ printRet' = "WriteErr"
    /\ UNCHANGED <<cfgs, ci, ai, seen, DockerfileRecs, Dockerfiles, pi, printed>>
    /\ UNCHANGED <<runVars, strVars, ruleVars, orderVars, clusterVars, argsVars>>

\* l := &dockerfileRecsList{}; seen := map[string]bool{};
\* workdir, err := util.RealWorkDir(); if err != nil { return err }
PrintRealWorkDir ==
    /\ pc = "realWorkDir"
    /\ \E ok \in BOOLEAN :
         IF ok THEN pc' = "artifacts" /\ printRet' = printRet
         ELSE pc' = "done" /\ printRet' = "err"
    /\ seen' = {}
    /\ DockerfileRecs' = <<>>
    /\ Dockerfiles' = <<>>
    /\ ci' = 1
    /\ ai' = 1
    /\ UNCHANGED <<cfgs, pi, printed>>
    /\ UNCHANGED <<runVars, strVars, ruleVars, orderVars, clusterVars, argsVars>>

\* an artifact that is no docker artifact, or whose Dockerfile was seen
PrintSkipArtifact ==
    /\ pc = "artifacts"
    /\ ci <= Len(cfgs)
    /\ ai <= Len(cfgs[ci].Artifacts)
    /\ LET a == cfgs[ci].Artifacts[ai] IN
         \/ ~a.docker
         \/ a.docker /\ AlreadySeen(seen, Join(workdir, Join(a.Workspace, a.DockerfilePath)))
    /\ ai' = ai + 1
    /\ UNCHANGED <<cfgs, pc, ci, seen, DockerfileRecs, Dockerfiles, pi, printed, printRet>>
    /\ UNCHANGED <<runVars, strVars, ruleVars, orderVars, clusterVars, argsVars>>

\* seen[fp] = true; b, err := ioutil.ReadFile(fp); d := Dockerfile{...};
\* recs, err := getDockerfileRecommendations(d);
\* l.DockerfileRecs = append(l.DockerfileRecs, *recs...);
\* l.Dockerfiles = append(l.Dockerfiles, d)
PrintReadDockerfile ==
    /\ pc = "artifacts"
    /\ ci <= Len(cfgs)
    /\ ai <= Len(cfgs[ci].Artifacts)
    /\ LET a  == cfgs[ci].Artifacts[ai]
           fp == Join(workdir, Join(a.Workspace, a.DockerfilePath)) IN
         /\ a.docker
         /\ ~AlreadySeen(seen, fp)
         /\ seen' = seen \cup {fp}
         /\ \/ \E text \in DockerfileTexts :
                 LET df == Dockerfile(fp, Join(a.Workspace, a.DockerfilePath), text) IN
                 /\ DockerfileRecs' = DockerfileRecs \o getDockerfileRecommendations(df)
                 /\ Dockerfiles' = Append(Dockerfiles, df)
                 /\ ai' = ai + 1
                 /\ UNCHANGED <<pc, printRet>>
            \/ /\ pc' = "done"
               /\ printRet' = "err"
               /\ UNCHANGED <<DockerfileRecs, Dockerfiles, ai>>
    /\ UNCHANGED <<cfgs, ci, pi, printed>>
    /\ UNCHANGED <<runVars, strVars, ruleVars, orderVars, clusterVars, argsVars>>

\* the artifacts of the config unit are done: the next unit
PrintNextConfig ==
    /\ pc = "artifacts"
    /\ ci <= Len(cfgs)
    /\ ai > Len(cfgs[ci].Artifacts)
    /\ ci' = ci + 1
    /\ ai' = 1
    /\ UNCHANGED <<cfgs, pc, seen, DockerfileRecs, Dockerfiles, pi, printed, printRet>>
    /\ UNCHANGED <<runVars, strVars, ruleVars, orderVars, clusterVars, argsVars>>

\* the config units are done: for i := range l.DockerfileRecs
PrintStartDiffs ==
    /\ pc = "artifacts"
    /\ ci > Len(cfgs)
    /\ pc' = "print"
    /\ pi' = 1
    /\ UNCHANGED <<cfgs, ci, ai, seen, DockerfileRecs, Dockerfiles, printed, printRet>>
    /\ UNCHANGED <<runVars, strVars, ruleVars, orderVars, clusterVars, argsVars>>

\* fmt.Println(generateRecommendationDiff(l.Dockerfiles[i], &l.DockerfileRecs[i])):
\* the index expression panics when l.Dockerfiles has no element i, the slice
\* expressions of generateRecommendationDiff when an offset is out of range
PrintDiff ==
    /\ pc = "print"
    /\ pi <= Len(DockerfileRecs)
    /\ IF pi > Len(Dockerfiles)
       THEN /\ pc' = "done"
            /\ printRet' = "panic"
            /\ UNCHANGED <<pi, printed>>
       ELSE LET out == generateRecommendationDiff(Dockerfiles[pi], DockerfileRecs[pi]) IN
            /\ printed' = Append(printed, [i |-> pi, out |-> out])
            /\ IF out.panic
               THEN pc' = "done" /\ printRet' = "panic" /\ pi' = pi
               ELSE pi' = pi + 1 /\ UNCHANGED <<pc, printRet>>
    /\ UNCHANGED <<cfgs, ci, ai, seen, DockerfileRecs, Dockerfiles>>
    /\ UNCHANGED <<runVars, strVars, ruleVars, orderVars, clusterVars, argsVars>>

\* return nil
PrintReturn ==
    /\ pc = "print"
    /\ pi > Len(DockerfileRecs)
    /\ pc' = "done"
    /\ printRet' = "nil"
    /\ UNCHANGED <<cfgs, ci, ai, seen, DockerfileRecs, Dockerfiles, pi, printed>>
    /\ UNCHANGED <<runVars, strVars, ruleVars, orderVars, clusterVars, argsVars>>

PrintNext ==
    \/ PrintGetConfigSet
    \/ PrintRealWorkDir
    \/ PrintSkipArtifact
    \/ PrintReadDockerfile
    \/ PrintNextConfig
    \/ PrintStartDiffs
    \/ PrintDiff
    \/ PrintReturn

(***************************************************************************)
(* Properties of PrintDockerfilesList                                      *)
(***************************************************************************)
\* C3: a recommendation whose RecommendedConfig.Action is Noop has an empty
\* RecommendedConfig.ConfigTemplate, and generateRecommendationDiff is never
\* invoked on it.
C3_NoDiffForNoop ==
    /\ \A i \in DOMAIN DockerfileRecs :
           DockerfileRecs[i].RecommendedConfig.Action = "Noop"
               => DockerfileRecs[i].RecommendedConfig.ConfigTemplate = <<>>
    /\ \A j \in DOMAIN printed :
           DockerfileRecs[printed[j].i].RecommendedConfig.Action # "Noop"


(***************************************************************************)
(* skaffoldYamlRules and YamlFieldLinter.Lint                              *)
(*                                                                         *)
(* A skaffold.yaml is taken as parsed: whether it parses at all, the       *)
(* fields it has (each the path of its names), and the value of its        *)
(* apiVersion field.                                                       *)
(***************************************************************************)
\* version.Get().ConfigVersion, taken to be "skaffold/v2beta21"
ConfigVersion == <<115, 107, 97, 102, 102, 111, 108, 100, 47, 118, 50, 98, 101, 116, 97, 50, 49>>

\* the bytes of a string, as a set
Chars(str) == { str[i] : i \in DOMAIN str }

\* a filter of a rule: the field looked for, the bytes the regular expression
\* [^...] on its value excludes (none: no expression), InvertMatch
YamlFieldFilter(path, notIn, invert) ==
    [path |-> path, notIn |-> notIn, InvertMatch |-> invert]

\* type Rule
Rule(id, filter, populator, conditions) ==
    [RuleID |-> id, RuleType |-> "YamlFieldLintRule", Filter |-> filter,
     ExplanationPopulator |-> populator, LintConditions |-> conditions]

\* the catalog with InvertMatch left out of SkaffoldYamlUseStaticPort
skaffoldYamlRulesNoInvert ==
    << Rule("SkaffoldYamlAPIVersionOutOfDate",
            YamlFieldFilter(<<"apiVersion">>, Chars(ConfigVersion), FALSE),
            "none", <<>>),
       Rule("SkaffoldYamlUseStaticPort",
            YamlFieldFilter(<<"portForward">>, {}, FALSE),
            "manifests", <<>>),
       Rule("SkaffoldYamlSyncPython",
            YamlFieldFilter(<<"build">>, {}, FALSE),
            "pySrc", << "noBuildSync", "pyDependency" >>) >>

\* var skaffoldYamlRules
skaffoldYamlRules ==
    << Rule("SkaffoldYamlAPIVersionOutOfDate",
            YamlFieldFilter(<<"apiVersion">>, Chars(ConfigVersion), FALSE),
            "none", <<>>),
       Rule("SkaffoldYamlUseStaticPort",
            YamlFieldFilter(<<"portForward">>, {}, TRUE),
            "manifests", <<>>),
       Rule("SkaffoldYamlSyncPython",
            YamlFieldFilter(<<"build">>, {}, FALSE),
            "pySrc", << "noBuildSync", "pyDependency" >>) >>

\* the rule the first condition of SkaffoldYamlSyncPython hands to the
\* linter: yaml.Lookup("build", "sync") with InvertMatch
BuildSyncAbsentRule ==
    Rule("", YamlFieldFilter(<<"build", "sync">>, {}, TRUE), "none", <<>>)

\* strings.HasSuffix
HasSuffix(str, suffix) ==
    /\ Len(str) >= Len(suffix)
    /\ SubSeq(str, Len(str) - Len(suffix) + 1, Len(str)) = suffix

\* ".py"
DotPy == <<46, 112, 121>>

\* the dependencies of the side-table that end in ".py"
PyDependencies(inputs) ==
    { dep \in UNION { { inputs.DockerfileToDepMap[p][i] :
                          i \in DOMAIN inputs.DockerfileToDepMap[p] } :
                      p \in DOMAIN inputs.DockerfileToDepMap } :
        HasSuffix(dep, DotPy) }

\* the filter of a rule on a parsed skaffold.yaml: the node it yields is not nil
FieldFound(doc, filter) ==
    /\ filter.path \in doc.fields
    /\ filter.notIn # {} => \E i \in DOMAIN doc.apiVersion : doc.apiVersion[i] \notin filter.notIn

\* the match step of YamlFieldLinter.Lint for one rule: an error when the
\* text does not parse, else whether the rule fires: the field is found, or,
\* with InvertMatch, is not found
MatchRule(rule, inputs) ==
    IF ~inputs.ConfigFile.valid THEN [err |-> TRUE, fires |-> FALSE]
    ELSE [err |-> FALSE,
          fires |-> (FieldFound(inputs.ConfigFile, rule.Filter) # rule.Filter.InvertMatch)]

\* linter.Lint(lintInputs, &[]Rule{rule}) for a rule without conditions
LintOneRule(inputs, rule) ==
    LET m == MatchRule(rule, inputs) IN
    [err |-> m.err, recs |-> IF m.fires THEN << [RuleID |-> rule.RuleID] >> ELSE <<>>]

\* a first condition that lets the rule through when the nested lint fails
SyncPythonNoBuildSyncOnErrorTrue(inputs) ==
    LET out == LintOneRule(inputs, BuildSyncAbsentRule) IN
    IF out.err THEN TRUE ELSE Len(out.recs) > 0

\* LintConditions[0] of SkaffoldYamlSyncPython
SyncPythonNoBuildSync(inputs) ==
    LET out == LintOneRule(inputs, BuildSyncAbsentRule) IN
    IF out.err THEN FALSE
    ELSE IF Len(out.recs) > 0 THEN TRUE
    ELSE FALSE

\* a second condition that does not look at the dependencies
SyncPythonPyDependencyAlways(inputs) == TRUE

\* LintConditions[1] of SkaffoldYamlSyncPython
SyncPythonPyDependency(inputs) == PyDependencies(inputs) # {}

\* a condition of a rule, by name
EvalCondition(name, inputs) ==
    IF name = "noBuildSync" THEN SyncPythonNoBuildSync(inputs)
    ELSE SyncPythonPyDependency(inputs)

\* the gate of a rule: every one of its LintConditions holds
AllPass(conditions, inputs) ==
    \A i \in DOMAIN conditions : EvalCondition(conditions[i], inputs)

\* filepath.Dir of a dependency path
DirOf(dep) ==
    LET slashes == { i \in DOMAIN dep : dep[i] = 47 } IN
    IF slashes = {} THEN <<46>>
    ELSE LET last == CHOOSE i \in slashes : \A j \in slashes : j <= i IN
         IF last = 1 THEN <<47>> ELSE SubSeq(dep, 1, last - 1)

\* filepath.Join(filepath.Dir(dep), "**", "*.py")
PySrc(dep) ==
    IF DirOf(dep) = <<46>> THEN <<42, 42, 47, 42, 46, 112, 121>>
    ELSE IF DirOf(dep) = <<47>> THEN <<47, 42, 42, 47, 42, 46, 112, 121>>
    ELSE DirOf(dep) \o <<47, 42, 42, 47, 42, 46, 112, 121>>

NoExplanationInfo == [hasSrc |-> FALSE, src |-> <<>>]

\* the first dependency of a list that ends in ".py": the inner loop of the
\* ExplanationPopulator of SkaffoldYamlSyncPython stops at it
FirstPy(deps) ==
    deps[CHOOSE i \in DOMAIN deps :
            /\ HasSuffix(deps[i], DotPy)
            /\ \A j \in 1..(i - 1) : ~HasSuffix(deps[j], DotPy)]

\* a populator that looks at the first dependency of every Dockerfile only
SyncPythonPopulatorFirstDepOnly(inputs) ==
    LET m == inputs.DockerfileToDepMap
        withPy == { p \in DOMAIN m : m[p] # <<>> /\ HasSuffix(m[p][1], DotPy) } IN
    IF withPy = {} THEN { [info |-> NoExplanationInfo, err |-> FALSE] }
    ELSE { [info |-> [hasSrc |-> TRUE, src |-> PySrc(m[p][1])], err |-> FALSE] :
             p \in withPy }

\* the ExplanationPopulator of SkaffoldYamlSyncPython: the (explanationInfo,
\* error) pairs it may return.  It ranges over a Go map, whose order is not
\* fixed: the Dockerfile whose first ".py" dependency it returns may be any
\* of those that have one.  It returns no error on any path.
SyncPythonPopulator(inputs) ==
    LET m == inputs.DockerfileToDepMap
        withPy == { p \in DOMAIN m : \E i \in DOMAIN m[p] : HasSuffix(m[p][i], DotPy) } IN
    IF withPy = {} THEN { [info |-> NoExplanationInfo, err |-> FALSE] }
    ELSE { [info |-> [hasSrc |-> TRUE, src |-> PySrc(FirstPy(m[p]))], err |-> FALSE] :
             p \in withPy }

\* the ExplanationPopulator of a rule: the explanationInfo values it may
\* return
Populate(rule, inputs) ==
    IF rule.ExplanationPopulator = "pySrc"
    THEN { r.info : r \in SyncPythonPopulator(inputs) }
    ELSE { NoExplanationInfo }

\* the parsed skaffold.yaml files
ApiVersions ==
    { ConfigVersion,
      <<115, 107, 97, 102, 102, 111, 108, 100, 47, 118, 49>>,
      <<115, 107, 97, 102, 102, 111, 108, 100, 47, 118, 51, 97, 108, 112, 104, 97, 49>> }

FieldSets ==
    { f \in SUBSET { <<"apiVersion">>, <<"portForward">>, <<"build">>, <<"build", "sync">> } :
        <<"build", "sync">> \in f => <<"build">> \in f }

ConfigDocs ==
    { [valid |-> v, fields |-> f, apiVersion |-> a] :
        v \in BOOLEAN, f \in FieldSets, a \in ApiVersions }

\* the side-tables
DepLists ==
    { <<>>, << MainGo, GoMod >>, << MainPy >>, << MainGo, AppMainPy >>, << <<112, 121>> >>,
      << AppMainPy, MainPy >> }

DepMaps ==
    UNION { [ps -> DepLists] :
              ps \in SUBSET { <<"w", "Dockerfile">>, <<"w", "app", "Dockerfile">> } }

RuleIdle ==
    /\ lintInputs = [ConfigFile |-> [valid |-> TRUE, fields |-> {}, apiVersion |-> <<>>],
                     DockerfileToDepMap |-> EmptyMap]
    /\ ri = 1
    /\ ruleLog = <<>>
    /\ ruleResults = <<>>
    /\ rpc = "idle"

RuleInit ==
    /\ lintInputs \in [ConfigFile : ConfigDocs, DockerfileToDepMap : DepMaps]
    /\ ri = 1
    /\ ruleLog = <<>>
    /\ ruleResults = <<>>
    /\ rpc = "rules"

\* one round of the loop over the rules: the gate, then the match, then the
\* result with its explanation
EvaluateRule ==
    /\ rpc = "rules"
    /\ ri <= Len(skaffoldYamlRules)
    /\ LET rule == skaffoldYamlRules[ri]
           gate == AllPass(rule.LintConditions, lintInputs)
           m    == MatchRule(rule, lintInputs) IN
         IF ~gate
         THEN /\ ruleLog' = Append(ruleLog, [rule |-> ri, gate |-> FALSE, added |-> 0])
              /\ ri' = ri + 1
              /\ UNCHANGED <<ruleResults, rpc>>
         ELSE IF m.err
         THEN /\ rpc' = "error"
              /\ UNCHANGED <<ruleLog, ruleResults, ri>>
         ELSE IF m.fires
         THEN \E info \in Populate(rule, lintInputs) :
                /\ ruleResults' = Append(ruleResults,
                                         [RuleID |-> rule.RuleID, Explanation |-> info])
                /\ ruleLog' = Append(ruleLog, [rule |-> ri, gate |-> TRUE, added |-> 1])
                /\ ri' = ri + 1
                /\ rpc' = rpc
         ELSE /\ ruleLog' = Append(ruleLog, [rule |-> ri, gate |-> TRUE, added |-> 0])
              /\ ri' = ri + 1
              /\ UNCHANGED <<ruleResults, rpc>>
    /\ UNCHANGED lintInputs
    /\ UNCHANGED <<loopVars, runVars, strVars, printVars, orderVars, clusterVars, argsVars>>

\* return results, nil
RulesDone ==
    /\ rpc = "rules"
    /\ ri > Len(skaffoldYamlRules)
    /\ rpc' = "done"
    /\ UNCHANGED <<lintInputs, ri, ruleLog, ruleResults>>
    /\ UNCHANGED <<loopVars, runVars, strVars, printVars, orderVars, clusterVars, argsVars>>

RuleNext ==
    \/ EvaluateRule
    \/ RulesDone

(***************************************************************************)
(* Properties of the rules                                                 *)
(***************************************************************************)
\* some condition of the rule is false on the inputs
SomeConditionFalse(rule, inputs) ==
    \E i \in DOMAIN rule.LintConditions : ~EvalCondition(rule.LintConditions[i], inputs)

\* the skaffold.yaml has a build.sync field
BuildSyncPresent == <<"build", "sync">> \in lintInputs.ConfigFile.fields

\* some dependency of the side-table ends in ".py"
SomeDependencyEndsInPy ==
    \E p \in DOMAIN lintInputs.DockerfileToDepMap :
        \E i \in DOMAIN lintInputs.DockerfileToDepMap[p] :
            LET dep == lintInputs.DockerfileToDepMap[p][i] IN
            /\ Len(dep) >= 3
            /\ dep[Len(dep) - 2] = 46
            /\ dep[Len(dep) - 1] = 112
            /\ dep[Len(dep)] = 121

ResultsOf(id) == { i \in DOMAIN ruleResults : ruleResults[i].RuleID = id }

\* C10: a rule one of whose LintConditions is false adds no result, whether
\* or not its filter matches; SkaffoldYamlSyncPython adds none when the
\* skaffold.yaml has a build.sync field or no dependency ends in ".py".
C10_GateCorrect ==
    /\ \A j \in DOMAIN ruleLog :
           SomeConditionFalse(skaffoldYamlRules[ruleLog[j].rule], lintInputs)
               => ruleLog[j].added = 0
    /\ (BuildSyncPresent \/ ~SomeDependencyEndsInPy)
           => ResultsOf("SkaffoldYamlSyncPython") = {}

\* every rule was evaluated on a skaffold.yaml whose build field is there, so
\* that the filter of SkaffoldYamlSyncPython matches, with dependencies that
\* end in ".py" and a build.sync field: the rule added nothing
C10_Witness ==
    /\ rpc = "done"
    /\ Len(ruleLog) = Len(skaffoldYamlRules)
    /\ MatchRule(skaffoldYamlRules[3], lintInputs).fires
    /\ SomeDependencyEndsInPy
    /\ BuildSyncPresent
    /\ ruleLog[3].added = 0
    /\ ResultsOf("SkaffoldYamlSyncPython") = {}

(***************************************************************************)
(* The first condition of SkaffoldYamlSyncPython when the nested lint fails *)
(***************************************************************************)
\* linter.Lint(lintInputs, &[]Rule{ the SkaffoldYamlSyncPython rule }): the
\* loop over the rules starts at that rule, the last of skaffoldYamlRules
SyncPythonOnlyInit ==
    /\ lintInputs \in [ConfigFile : ConfigDocs, DockerfileToDepMap : DepMaps]
    /\ ri = Len(skaffoldYamlRules)
    /\ ruleLog = <<>>
    /\ ruleResults = <<>>
    /\ rpc = "rules"

\* the nested linter.Lint of the condition returns an error
NestedLintFails == LintOneRule(lintInputs, BuildSyncAbsentRule).err

\* C11: when the nested YamlFieldLinter.Lint of the first condition of
\* SkaffoldYamlSyncPython returns an error, the condition is false: the rule
\* adds no result and the Lint call that evaluates the rule returns no error.
C11_ConditionErrorIsFalse ==
    NestedLintFails =>
        /\ ~SyncPythonNoBuildSync(lintInputs)
        /\ ResultsOf("SkaffoldYamlSyncPython") = {}
        /\ rpc # "error"
        /\ \A j \in DOMAIN ruleLog : ~ruleLog[j].gate /\ ruleLog[j].added = 0

\* the rule was evaluated on a skaffold.yaml that does not parse, with a
\* build field and a dependency ending in ".py", and Lint returned
C11_Witness ==
    /\ NestedLintFails
    /\ <<"build">> \in lintInputs.ConfigFile.fields
    /\ ~BuildSyncPresent
    /\ SomeDependencyEndsInPy
    /\ rpc = "done"
    /\ Len(ruleLog) = 1
    /\ ruleLog[1].rule = 3

(***************************************************************************)
(* InvertMatch                                                             *)
(***************************************************************************)
\* the skaffold.yaml has the field the filter of rule names
FieldPresent(rule) == rule.Filter.path \in lintInputs.ConfigFile.fields

\* the value of the apiVersion field has a byte that is no byte of the
\* current version: the expression [^<ConfigVersion>] matches it
ApiVersionValueMatches ==
    \E i \in DOMAIN lintInputs.ConfigFile.apiVersion :
        \A k \in DOMAIN ConfigVersion : lintInputs.ConfigFile.apiVersion[i] # ConfigVersion[k]

\* the rules of the catalog that were evaluated with their conditions true
Evaluated == { j \in DOMAIN ruleLog : ruleLog[j].gate }

\* the nested lookup of build.sync yields a recommendation
NestedLookupYields == Len(LintOneRule(lintInputs, BuildSyncAbsentRule).recs) > 0

Side(lines, kinds) ==
    ConcatRange([ i \in 1..Len(lines) |->
                    IF lines[i].kind \in kinds THEN lines[i].text ELSE <<>> ],
                1, Len(lines))

\* the diffs that were generated without a panic
Generated == { i \in DOMAIN diffs : ~diffs[i].panic }

\* original[:TextStartIndex] + RecommendedConfig.ConfigTemplate + original[TextEndIndex:]
ModifiedBuffer(text, r) ==
    [ k \in 1..r.FlaggedConfig.TextStartIndex |-> text[k] ]
    \o r.RecommendedConfig.ConfigTemplate
    \o [ k \in 1..(Len(text) - r.FlaggedConfig.TextEndIndex) |->
           text[r.FlaggedConfig.TextEndIndex + k] ]

\* C13: the diff of a recommendation has the original text as its old side
\* and original[:TextStartIndex] + RecommendedConfig.ConfigTemplate +
\* original[TextEndIndex:] as its new side; the old side is named by the
\* relative path with ".orig", the new side by the relative path.
C13_DiffOfSplice ==
    \A i \in Generated :
        LET lines == diffs[i].lines IN
        /\ Side(lines, {" ", "-"}) = d.Text
        /\ Side(lines, {" ", "+"}) = ModifiedBuffer(d.Text, recs[i])
        /\ \A k \in DOMAIN lines :
             /\ lines[k].kind = "---" =>
                    lines[k].path = << [path |-> d.RelPath, suffix |-> ".orig"] >>
             /\ lines[k].kind = "+++" =>
                    lines[k].path = << [path |-> d.RelPath, suffix |-> ""] >>
        /\ \E k \in DOMAIN lines : lines[k].kind = "---"
        /\ \E k \in DOMAIN lines : lines[k].kind = "+++"

\* a diff was generated for a recommendation whose span lies inside the text,
\* with text before it and text after it
C13_Witness ==
    /\ spc = "diffed"
    /\ \E i \in Generated :
         /\ recs[i].FlaggedConfig.TextStartIndex > 0
         /\ recs[i].FlaggedConfig.TextEndIndex < Len(d.Text)
         /\ recs[i].FlaggedConfig.TextStartIndex < recs[i].FlaggedConfig.TextEndIndex
         /\ recs[i].RecommendedConfig.ConfigTemplate # <<>>

\* the offsets of recommendation r lie inside the text
InRange(text, r) ==
    /\ 0 <= r.FlaggedConfig.TextStartIndex
    /\ r.FlaggedConfig.TextStartIndex <= r.FlaggedConfig.TextEndIndex
    /\ r.FlaggedConfig.TextEndIndex <= Len(text)

PureInsertion(r) == r.FlaggedConfig.TextStartIndex = r.FlaggedConfig.TextEndIndex
PureDeletion(r) == r.RecommendedConfig.ConfigTemplate = <<>>

\* C14: for a recommendation whose offsets lie inside the text, a pure
\* insertion and a pure deletion among them and those that are both, the diff
\* step does not panic and its output is not empty.
C14_NoPanicNoEmptyOutput ==
    \A i \in DOMAIN diffs :
        InRange(d.Text, recs[i]) =>
            /\ ~diffs[i].panic
            /\ diffs[i].text # <<>>
            /\ diffs[i].lines # <<>>

\* a diff was generated for a recommendation that puts nothing in the place
\* of an empty span, and one for a deletion of a span that is not empty
C14_Witness ==
    /\ spc = "diffed"
    /\ \E i \in DOMAIN diffs :
         InRange(d.Text, recs[i]) /\ PureInsertion(recs[i]) /\ PureDeletion(recs[i])
    /\ d.Text # <<>>

\* line starts with the bytes of prefix
StartsWith(line, prefix) ==
    Len(line) >= Len(prefix) /\ SubSeq(line, 1, Len(prefix)) = prefix

\* how a line of a diff may start: "diff --git ", "--- ", "+++ ", "@@", or the
\* "+", "-" or " " of a line of the body
DiffLineStarts ==
    { <<100, 105, 102, 102, 32, 45, 45, 103, 105, 116, 32>>,
      <<45, 45, 45, 32>>, <<43, 43, 43, 32>>, <<64, 64>>,
      <<43>>, <<45>>, <<32>> }

\* the lines the writer emits for recommendation r, those of kind "index"
\* left out
WriterLinesButIndex(text, rel, r) ==
    LET NotIndex(x) == x.kind # "index" IN
    SelectSeq(WriterDiff([path |-> rel, suffix |-> ".orig"], text,
                         [path |-> rel, suffix |-> ""], ModifiedBuffer(text, r)),
              NotIndex)

\* C15: in the text generateRecommendationDiff returns no line starts with
\* "index", every line starts as a path header, a hunk header or a "+", "-"
\* or context line does, and the text is the writer's output with its index
\* line taken out and every other line as it was.
C15_OnlyHeadersAndBody ==
    \A i \in Generated :
        LET out == SplitLines(diffs[i].text) IN
        /\ \A k \in DOMAIN out :
             /\ ~StartsWith(out[k], IndexWord)
             /\ \E p \in DiffLineStarts : StartsWith(out[k], p)
        /\ diffs[i].text = OutputText(WriterLinesButIndex(d.Text, d.RelPath, recs[i]))

\* a diff was generated whose body has a removed line and a context line
\* that read "index"
C15_Witness ==
    /\ spc = "diffed"
    /\ d.Text = IndexText
    /\ \E i \in Generated :
         /\ \E k \in DOMAIN diffs[i].lines :
              diffs[i].lines[k].kind = "-" /\ StartsWith(diffs[i].lines[k].text, IndexWord)
         /\ \E k \in DOMAIN diffs[i].lines :
              diffs[i].lines[k].kind = " " /\ StartsWith(diffs[i].lines[k].text, IndexWord)

\* every diff generated so far is the diff of its recommendation against the
\* text the Dockerfile has
DiffsAgainstOriginal ==
    \A i \in DOMAIN diffs : diffs[i] = generateRecommendationDiff(d, recs[i])

\* a step that generates a diff leaves the Dockerfile and the
\* recommendations as they are
DiffLeavesInputs == (spc = "suggested") => (d' = d /\ recs' = recs)

\* C17: generateRecommendationDiff leaves the Dockerfile text and the
\* Recommendation unchanged, so every diff generated for an artifact, however
\* many were generated before it, is the diff against the original text.
C17_NeverChained == [](DiffsAgainstOriginal) /\ [][DiffLeavesInputs]_vars

\* two diffs were generated for one Dockerfile, the first of which changes
\* the text
C17_Witness ==
    /\ spc = "diffed"
    /\ Len(diffs) = 2
    /\ ~diffs[1].panic /\ ~diffs[2].panic
    /\ ModifiedBuffer(d.Text, recs[1]) # d.Text
    /\ ModifiedBuffer(d.Text, recs[2]) # d.Text

\* C18: when PrintDockerfilesList generates the diffs, every index i of
\* DockerfileRecs has a Dockerfile at Dockerfiles[i], the one whose text
\* produced DockerfileRecs[i] (the recommendation carries its path), and every
\* diff printed is one of a recommendation against that Dockerfile.
C18_DiffAgainstSourceBuffer ==
    /\ pc = "print" =>
           \A i \in DOMAIN DockerfileRecs :
               /\ i <= Len(Dockerfiles)
               /\ Dockerfiles[i].AbsPath = DockerfileRecs[i].FlaggedConfig.Path
    /\ \A j \in DOMAIN printed :
           Dockerfiles[printed[j].i].AbsPath = DockerfileRecs[printed[j].i].FlaggedConfig.Path

\* the string-equals recommendations of the Dockerfiles read so far, in order
StringEqualsOfAll ==
    ConcatRange([ k \in 1..Len(Dockerfiles) |->
                    SuggestRecsViaStringEquals(StringEqualsRecs, Dockerfiles[k]) ],
                1, Len(Dockerfiles))

\* C19: the regex-based and the graph-based generators return nothing: what
\* getDockerfileRecommendations returns for a Dockerfile is what
\* StringEqualsRecs.SuggestRecsViaStringEquals returns for it, in that order.
C19_InertGenerators ==
    /\ regexpRecommendations = <<>>
    /\ graphRecommendations = <<>>
    /\ DockerfileRecs = StringEqualsOfAll

\* two Dockerfiles were read and recommendations were collected for them
C19_Witness ==
    /\ pc = "print"
    /\ Len(Dockerfiles) = 2
    /\ Len(DockerfileRecs) >= 2

(***************************************************************************)
(* GetSkaffoldYamlsLintResults on the same config units in two orders      *)
(***************************************************************************)
\* the skaffold.yaml files of the units: with a build field, with build and
\* build.sync, with neither; all parse, all have a portForward field and the
\* current apiVersion
OrderFiles ==
    { [valid |-> TRUE, apiVersion |-> ConfigVersion,
       fields |-> {<<"apiVersion">>, <<"portForward">>} \cup f] :
        f \in { {}, {<<"build">>}, {<<"build">>, <<"build", "sync">>} } }

\* the units: a skaffold.yaml and no Dockerfile, ./Dockerfile (which copies
\* Go files) or app/Dockerfile (which copies a .py file)
OrderUnits ==
    [ Artifacts : { <<>>, << RootDockerfile >>, << AppDockerfile >> }, File : OrderFiles ]

\* the orders of n units
Orders(n) == { p \in [1..n -> 1..n] : \A i, j \in 1..n : p[i] = p[j] => i = j }

\* the loop over c.Build.Artifacts: the seen map and the side-table after it
RECURSIVE ExtractAll(_, _, _)
ExtractAll(artifacts, seenSet, table) ==
    IF artifacts = <<>> THEN [seen |-> seenSet, table |-> table]
    ELSE LET a == Head(artifacts) IN
         IF ~a.docker \/ AlreadySeen(seenSet, FpOf(a))
         THEN ExtractAll(Tail(artifacts), seenSet, table)
         ELSE ExtractAll(Tail(artifacts), seenSet \cup {FpOf(a)},
                         MapPut(table, FpOf(a), GetDependencies(WsOf(a), FpOf(a))))

\* the rules of skaffoldYamlRules that give a result on the inputs: their
\* conditions hold and their filter matches
FiringRules(inputs) ==
    { skaffoldYamlRules[k].RuleID : k \in
        { k \in DOMAIN skaffoldYamlRules :
            /\ AllPass(skaffoldYamlRules[k].LintConditions, inputs)
            /\ MatchRule(skaffoldYamlRules[k], inputs).fires } }

OrderIdle ==
    /\ units = <<>>
    /\ perm = <<>>
    /\ run = "idle"
    /\ oi = 1
    /\ oseen = {}
    /\ otable = EmptyMap
    /\ unitRecs = <<>>

OrderInit ==
    /\ units \in SeqsUpTo(OrderUnits, MaxCfgs)
    /\ perm \in Orders(Len(units))
    /\ run = "first"
    /\ oi = 1
    /\ oseen = {}
    /\ otable = EmptyMap
    /\ unitRecs = <<>>

\* the unit the loop is at: the units are taken in their order in the first
\* run, in the order perm in the second
UnitAt(i) == IF run = "first" THEN i ELSE perm[i]

\* one round of the loop over cfgs: the Dockerfiles of the unit are added to
\* the side-table, then the unit is linted with the side-table as it is
LintUnit ==
    /\ run \in {"first", "second"}
    /\ oi <= Len(units)
    /\ LET u  == UnitAt(oi)
           ex == ExtractAll(units[u].Artifacts, oseen, otable)
           in == [ConfigFile |-> units[u].File, DockerfileToDepMap |-> ex.table] IN
         /\ oseen' = ex.seen
         /\ otable' = ex.table
         /\ unitRecs' = Append(unitRecs, [run |-> run, unit |-> u, rules |-> FiringRules(in)])
    /\ oi' = oi + 1
    /\ UNCHANGED <<units, perm, run>>
    /\ UNCHANGED <<loopVars, runVars, strVars, printVars, ruleVars, clusterVars, argsVars>>

\* the first run returned: the second starts, with its own seen map and
\* side-table
SecondRun ==
    /\ run = "first"
    /\ oi > Len(units)
    /\ run' = "second"
    /\ oi' = 1
    /\ oseen' = {}
    /\ otable' = EmptyMap
    /\ UNCHANGED <<units, perm, unitRecs>>
    /\ UNCHANGED <<loopVars, runVars, strVars, printVars, ruleVars, clusterVars, argsVars>>

\* the second run returned
BothRunsDone ==
    /\ run = "second"
    /\ oi > Len(units)
    /\ run' = "done"
    /\ UNCHANGED <<units, perm, oi, oseen, otable, unitRecs>>
    /\ UNCHANGED <<loopVars, runVars, strVars, printVars, ruleVars, clusterVars, argsVars>>

OrderNext ==
    \/ LintUnit
    \/ SecondRun
    \/ BothRunsDone

\* the rules that gave a result for unit u in run r
RulesFor(r, u) ==
    UNION { unitRecs[k].rules : k \in { k \in DOMAIN unitRecs :
                                          unitRecs[k].run = r /\ unitRecs[k].unit = u } }

\* C20: whatever the order of the config units, each unit gets the same
\* recommendations: the rules that give a result for a unit in the first run
\* are those that give one for it in the second.
C20_OrderIndependent ==
    run = "done" =>
        \A u \in DOMAIN units : RulesFor("first", u) = RulesFor("second", u)

(***************************************************************************)
(* The ExplanationPopulator of SkaffoldYamlSyncPython and its conditions   *)
(***************************************************************************)
\* both LintConditions of SkaffoldYamlSyncPython hold on the inputs
BothSyncPythonConditions ==
    /\ SyncPythonNoBuildSync(lintInputs)
    /\ SyncPythonPyDependency(lintInputs)

\* the "src" of an explanationInfo comes from a dependency ending in ".py"
SrcFromPyDependency(info) ==
    /\ info.hasSrc
    /\ \E dep \in PyDependencies(lintInputs) : info.src = PySrc(dep)

\* C21: when both LintConditions of SkaffoldYamlSyncPython hold on the
\* LintInputs, its ExplanationPopulator on the same LintInputs returns no
\* error and a FieldMap with the key "src", derived from a dependency ending
\* in ".py", and so has every result the rule added; the populator returns
\* an empty explanationInfo only when no dependency of the side-table ends
\* in ".py".
C21_PopulatorAgreesWithConditions ==
    /\ BothSyncPythonConditions
           => \A r \in SyncPythonPopulator(lintInputs) :
                  ~r.err /\ SrcFromPyDependency(r.info)
    /\ \A i \in ResultsOf("SkaffoldYamlSyncPython") :
           SrcFromPyDependency(ruleResults[i].Explanation)
    /\ \A r \in SyncPythonPopulator(lintInputs) :
           r.info = NoExplanationInfo => ~SomeDependencyEndsInPy

\* every rule was evaluated on a skaffold.yaml with a build field and no
\* build.sync, with a Dockerfile whose second dependency is app/main.py:
\* SkaffoldYamlSyncPython added a result whose "src" is app/**/*.py
C21_Witness ==
    /\ rpc = "done"
    /\ BothSyncPythonConditions
    /\ \E p \in DOMAIN lintInputs.DockerfileToDepMap :
           lintInputs.DockerfileToDepMap[p] = << MainGo, AppMainPy >>
    /\ \E i \in ResultsOf("SkaffoldYamlSyncPython") :
           ruleResults[i].Explanation =
               [hasSrc |-> TRUE,
                src |-> <<97, 112, 112, 47, 42, 42, 47, 42, 46, 112, 121>>]

(***************************************************************************)
(* Package cluster (pkg/skaffold/cluster/minikube.go): the minikube binary *)
(* found once per process, and a clientImpl with its cached detection.     *)
(* A version is 100 * major + minor: 118 is 1.18.0, 0 is semver.Version{}. *)
(***************************************************************************)
\* minikubeVersionWithUserFlag, 1.18.0
minikubeVersionWithUserFlag == 118

\* what exec.LookPath("minikube") returns when the binary is on PATH
MinikubePath == "/usr/local/bin/minikube"

\* the values of mk.err
NoErr == "nil"
LookupErr == "unable to lookup minikube executable"
NotFoundErr == "unable to find minikube executable"
VersionErr == "versionErr"

\* errors.As(err, &versionErr{})
IsVersionErr(err) == err = VersionErr

\* no profile: c.profile == nil
NoProfile == [nil |-> TRUE]

\* type profile: Config.Name, Config.Nodes, Config.KubernetesConfig.ContainerRuntime
Profile(name, nodes, runtime) ==
    [nil |-> FALSE, Name |-> name, Nodes |-> nodes, ContainerRuntime |-> runtime]

\* type node
Node(ip, port) == [IP |-> ip, Port |-> port]

\* fmt.Sprintf("%s:%d", n.IP, n.Port), and the Host of a server URL: the
\* text before the colon and the number after it
HostPort(ip, port) == <<ip, port>>

\* the profiles of `minikube profile list`
SingleNodeDocker ==
    Profile("minikube", << Node("192.168.49.2", 8443) >>, "docker")
TwoNodes ==
    Profile("multi", << Node("10.0.0.1", 8443), Node("10.0.0.2", 8443) >>, "docker")
Containerd ==
    Profile("gke", << Node("192.168.64.3", 8443) >>, "containerd")

\* what listProfilesLight gets from the command: an error (the run or the
\* unmarshal failed) or profileList.Valid
ProfileLists ==
    { [err |-> TRUE, Valid |-> <<>>],
      [err |-> FALSE, Valid |-> <<>>],
      [err |-> FALSE, Valid |-> << SingleNodeDocker >>],
      [err |-> FALSE, Valid |-> << TwoNodes, Containerd, SingleNodeDocker >>] }

\* a context of the kubeconfig: its cluster, whether its context_info and
\* cluster_info extensions are there and from minikube
KubeCtx(cluster, contextInfo, clusterInfo) ==
    [Cluster |-> cluster, contextInfo |-> contextInfo, clusterInfo |-> clusterInfo]

\* a cluster of the kubeconfig: whether matchClusterCertPath holds of its
\* CertificateAuthority, whether url.Parse takes its Server, and the Host
KubeCluster(cert, parses, host) ==
    [cert |-> cert, parses |-> parses, Host |-> host]

\* what kctx.CurrentConfig returns
KubeConfigs ==
    { [err |-> TRUE, Contexts |-> EmptyMap, Clusters |-> EmptyMap],
      \* a minikube context with the context_info extension, and another one
      [err |-> FALSE,
       Contexts |-> [k \in {"minikube", "gke"} |->
                        KubeCtx(k, k = "minikube", FALSE)],
       Clusters |-> [k \in {"minikube", "gke"} |->
                        KubeCluster(FALSE, TRUE, HostPort("10.1.1.1", 443))]],
      \* the cluster_info extension only
      [err |-> FALSE,
       Contexts |-> [k \in {"minikube", "gke"} |->
                        KubeCtx(k, FALSE, k = "minikube")],
       Clusters |-> [k \in {"minikube", "gke"} |->
                        KubeCluster(FALSE, TRUE, HostPort("10.1.1.1", 443))]],
      \* the certificate under the minikube directory only
      [err |-> FALSE,
       Contexts |-> [k \in {"minikube", "gke"} |-> KubeCtx(k, FALSE, FALSE)],
       Clusters |-> [k \in {"minikube", "gke"} |->
                        KubeCluster(k = "minikube", TRUE, HostPort("10.1.1.1", 443))]],
      \* nothing but the profiles tells: one server is a node of a profile,
      \* the other context has the name of a profile
      [err |-> FALSE,
       Contexts |-> [k \in {"minikube", "gke"} |-> KubeCtx(k, FALSE, FALSE)],
       Clusters |-> [k \in {"minikube", "gke"} |->
                        KubeCluster(FALSE, TRUE,
                                    IF k = "minikube" THEN HostPort("10.0.0.2", 8443)
                                    ELSE HostPort("10.1.1.1", 443))]],
      \* a server URL that does not parse, a context whose cluster is gone
      [err |-> FALSE,
       Contexts |-> [k \in {"minikube", "gke"} |->
                        KubeCtx(IF k = "gke" THEN "gone" ELSE k, FALSE, FALSE)],
       Clusters |-> [k \in {"minikube"} |->
                        KubeCluster(FALSE, FALSE, HostPort("", 0))]] }

\* the kubeContext values a caller passes
KubeContexts == { "", "minikube", "gke", "kind" }

\* what GetCurrentVersionFunc returns: an error, or a version
VersionResults == { [err |-> TRUE, version |-> 0],
                    [err |-> FALSE, version |-> 117],
                    [err |-> FALSE, version |-> 118] }

\* the machine.  exec.LookPath finds the binary or not; os.Stat of the path
\* it returned reports the file there, not there (removed since), or fails
\* otherwise; when LookPath found nothing the path is "" and os.Stat("")
\* reports a file that does not exist.
Environments ==
    { e \in [lookPath : {"found", "missing"}, stat : {"ok", "notExist", "other"},
             version : VersionResults, kubeConfig : KubeConfigs,
             profiles : ProfileLists] :
        e.lookPath = "missing" => e.stat = "notExist" }

\* var mk before findOnce has run
mkZero == [err |-> NoErr, version |-> 0, path |-> ""]

\* the body of findOnce.Do in minikubeBinary
FindBody(e) ==
    LET filename == IF e.lookPath = "found" THEN MinikubePath ELSE ""
        err1 == IF e.lookPath = "missing" THEN LookupErr ELSE NoErr
        err2 == IF e.stat = "notExist" THEN NotFoundErr ELSE err1
        err3 == IF e.version.err THEN VersionErr ELSE err2 IN
    [err |-> err3,
     version |-> IF e.version.err THEN 0 ELSE e.version.version,
     path |-> filename]

\* minikubeBinary: mk after the call, findOnce having run
minikubeBinary(m, once, e) == IF once THEN m ELSE FindBody(e)

\* supportsUserFlag
supportsUserFlag(ver) == ver >= minikubeVersionWithUserFlag

\* no command: the *exec.Cmd returned is nil
NoCmd == [nil |-> TRUE]

\* exec.Command(b, arg...)
Command(b, arg) == [nil |-> FALSE, Path |-> b, Args |-> arg]

\* minikubeExec, given mk as FindMinikubeBinary returned it
minikubeExec(m, arg) ==
    IF m.err # NoErr /\ ~IsVersionErr(m.err)
    THEN [cmd |-> NoCmd, err |-> TRUE]
    ELSE IF m.err = NoErr /\ supportsUserFlag(m.version)
    THEN [cmd |-> Command(m.path, Append(arg, "--user=skaffold")), err |-> FALSE]
    ELSE [cmd |-> Command(m.path, arg), err |-> FALSE]

\* util.RunCmdOut of a minikube command: it fails when the file of the
\* command is not there; else it gives what the machine gives
RunProfileList(cmd, e) ==
    IF cmd.Path = "" \/ e.stat = "notExist" THEN [err |-> TRUE, Valid |-> <<>>]
    ELSE e.profiles

\* minikubeVersionWithProfileLightFlag, 1.18.0
minikubeVersionWithProfileLightFlag == 118

\* listProfilesLight.  The --light flag is decided on mk.version as it is
\* before minikubeExec calls FindMinikubeBinary (mBefore), the command is
\* made from mk as it is after (m).
listProfilesLight(mBefore, m, e) ==
    LET base == << "profile", "list", "-o", "json" >>
        arg == IF mBefore.version >= minikubeVersionWithProfileLightFlag
               THEN Append(base, "--light") ELSE base
        x == minikubeExec(m, arg) IN
    IF x.err THEN [err |-> TRUE, Valid |-> <<>>] ELSE RunProfileList(x.cmd, e)

\* the first profile one of whose nodes is the host of the server, 0 if none
NodeMatch(valid, host) ==
    LET hits == { i \in DOMAIN valid :
                    \E j \in DOMAIN valid[i].Nodes :
                        host = HostPort(valid[i].Nodes[j].IP, valid[i].Nodes[j].Port) } IN
    IF hits = {} THEN 0 ELSE CHOOSE i \in hits : \A j \in hits : i <= j

\* the first profile with the name of the cluster or of the context, 0 if none
NameMatch(valid, clusterName, k) ==
    LET hits == { i \in DOMAIN valid :
                    valid[i].Name = clusterName \/ valid[i].Name = k } IN
    IF hits = {} THEN 0 ELSE CHOOSE i \in hits : \A j \in hits : i <= j

\* resolveProfile on a client whose kubeContext is k and whose profile is p:
\* the error, c.profile after the call, and whether FindMinikubeBinary was
\* called on the way (it is, by listProfilesLight)
resolveProfile(k, p, m, once, e) ==
    LET cfg == e.kubeConfig IN
    IF ~p.nil THEN [err |-> FALSE, profile |-> p, found |-> FALSE]
    ELSE IF cfg.err THEN [err |-> TRUE, profile |-> p, found |-> FALSE]
    ELSE IF k \notin DOMAIN cfg.Contexts THEN [err |-> TRUE, profile |-> p, found |-> FALSE]
    ELSE IF cfg.Contexts[k].Cluster \notin DOMAIN cfg.Clusters
    THEN [err |-> TRUE, profile |-> p, found |-> FALSE]
    ELSE LET ktxt == cfg.Contexts[k]
             cluster == cfg.Clusters[ktxt.Cluster]
             profiles == listProfilesLight(m, minikubeBinary(m, once, e), e)
             byNode == NodeMatch(profiles.Valid, cluster.Host)
             byName == NameMatch(profiles.Valid, ktxt.Cluster, k) IN
         IF profiles.err THEN [err |-> TRUE, profile |-> p, found |-> TRUE]
         ELSE IF ~cluster.parses THEN [err |-> TRUE, profile |-> p, found |-> TRUE]
         ELSE IF byNode # 0
         THEN [err |-> FALSE, profile |-> profiles.Valid[byNode], found |-> TRUE]
         ELSE IF byName # 0
         THEN [err |-> FALSE, profile |-> profiles.Valid[byName], found |-> TRUE]
         ELSE [err |-> TRUE, profile |-> p, found |-> TRUE]

\* c.isMinikube = false, whatever it was
DefaultIsMinikubeKept(old) == old

\* c.isMinikube = false // default to not being minikube
DefaultIsMinikube(old) == FALSE

\* the detection of IsMinikube for a new kubeContext k, from the call of
\* FindMinikubeBinary on (m is mk after it): whether a minikube cluster was
\* detected, and c.profile after it
Detect(k, m, e) ==
    LET cfg == e.kubeConfig IN
    IF m.err # NoErr THEN [ok |-> FALSE, profile |-> NoProfile]
    ELSE IF cfg.err THEN [ok |-> FALSE, profile |-> NoProfile]
    ELSE IF k \notin DOMAIN cfg.Contexts THEN [ok |-> FALSE, profile |-> NoProfile]
    ELSE IF cfg.Contexts[k].Cluster \notin DOMAIN cfg.Clusters
    THEN [ok |-> FALSE, profile |-> NoProfile]
    ELSE LET ktxt == cfg.Contexts[k]
             cluster == cfg.Clusters[ktxt.Cluster]
             r == resolveProfile(k, NoProfile, m, TRUE, e) IN
         IF ktxt.contextInfo THEN [ok |-> TRUE, profile |-> NoProfile]
         ELSE IF ktxt.clusterInfo THEN [ok |-> TRUE, profile |-> NoProfile]
         ELSE IF cluster.cert THEN [ok |-> TRUE, profile |-> NoProfile]
         ELSE IF ~r.err THEN [ok |-> TRUE, profile |-> r.profile]
         ELSE [ok |-> FALSE, profile |-> r.profile]

\* what a call returned: the method, its kubeContext argument, the bool it
\* returned, whether the call ran the detection, the command and the error
\* of MinikubeExec
Returned(call, arg, value, detected, cmd, err) ==
    [call |-> call, arg |-> arg, value |-> value, detected |-> detected,
     cmd |-> cmd, err |-> err]

NoDetection == [ran |-> FALSE, ctx |-> "", ok |-> FALSE]

ClusterIdle ==
    /\ env = [lookPath |-> "missing"]
    /\ kubeContext = ""
    /\ isMinikube = FALSE
    /\ profile = NoProfile
    /\ mk = mkZero
    /\ findOnce = FALSE
    /\ mkRet = Returned("", "", FALSE, FALSE, NoCmd, FALSE)
    /\ detection = NoDetection
    /\ resolvedFor = ""

\* getClient: &clientImpl{}, in a process where findOnce has not run
ClusterInit ==
    /\ env \in Environments
    /\ kubeContext = ""
    /\ isMinikube = FALSE
    /\ profile = NoProfile
    /\ mk = mkZero
    /\ findOnce = FALSE
    /\ mkRet = Returned("", "", FALSE, FALSE, NoCmd, FALSE)
    /\ detection = NoDetection
    /\ resolvedFor = ""

\* clientImpl.IsMinikube
IsMinikube ==
    \E k \in KubeContexts :
        /\ IF kubeContext = k
           THEN /\ mkRet' = Returned("IsMinikube", k, isMinikube, FALSE, NoCmd, FALSE)
                /\ UNCHANGED <<kubeContext, isMinikube, profile, mk, findOnce,
                               detection, resolvedFor>>
           ELSE LET m == minikubeBinary(mk, findOnce, env)
                    det == Detect(k, m, env) IN
                /\ kubeContext' = k
                /\ isMinikube' = (det.ok \/ DefaultIsMinikube(isMinikube))
                /\ profile' = det.profile
                /\ mk' = m
                /\ findOnce' = TRUE
                /\ detection' = [ran |-> TRUE, ctx |-> k, ok |-> det.ok]
                /\ resolvedFor' = IF det.profile.nil THEN resolvedFor ELSE k
                /\ mkRet' = Returned("IsMinikube", k, det.ok, TRUE, NoCmd, FALSE)
        /\ UNCHANGED env
        /\ UNCHANGED <<loopVars, runVars, strVars, printVars, ruleVars, orderVars, argsVars>>

\* clientImpl.UseDockerEnv
UseDockerEnv ==
    LET r == resolveProfile(kubeContext, profile, mk, findOnce, env) IN
    /\ profile' = r.profile
    /\ mk' = IF r.found THEN minikubeBinary(mk, findOnce, env) ELSE mk
    /\ findOnce' = (findOnce \/ r.found)
    /\ resolvedFor' = IF profile.nil /\ ~r.profile.nil THEN kubeContext ELSE resolvedFor
    /\ mkRet' = Returned("UseDockerEnv", "",
                         IF r.err THEN FALSE
                         ELSE r.profile.ContainerRuntime = "docker"
                              /\ Len(r.profile.Nodes) = 1,
                         FALSE, NoCmd, FALSE)
    /\ UNCHANGED <<env, kubeContext, isMinikube, detection>>
    /\ UNCHANGED <<loopVars, runVars, strVars, printVars, ruleVars, orderVars, argsVars>>

\* the arguments MinikubeExec is called with
ExecArgs == { << "docker-env", "--shell", "none" >>, << "ip" >> }

\* clientImpl.MinikubeExec
MinikubeExec ==
    \E arg \in ExecArgs :
        LET m == minikubeBinary(mk, findOnce, env)
            x == minikubeExec(m, arg) IN
        /\ mk' = m
        /\ findOnce' = TRUE
        /\ mkRet' = Returned("MinikubeExec", "", FALSE, FALSE, x.cmd, x.err)
        /\ UNCHANGED <<env, kubeContext, isMinikube, profile, detection, resolvedFor>>
        /\ UNCHANGED <<loopVars, runVars, strVars, printVars, ruleVars, orderVars, argsVars>>

ClusterNext ==
    \/ IsMinikube
    \/ UseDockerEnv
    \/ MinikubeExec

(***************************************************************************)
(* Properties of package cluster                                           *)
(***************************************************************************)
\* mk once findOnce has run
mkFound == FindBody(env)

\* isMinikube is true only after a detection for the stored kubeContext
\* that succeeded, and that detection is the one the machine gives
IsMinikubeOnlyIfDetected ==
    isMinikube =>
        /\ detection = [ran |-> TRUE, ctx |-> kubeContext, ok |-> TRUE]
        /\ Detect(kubeContext, mkFound, env).ok

\* profile is there only if it was resolved for the stored kubeContext
ProfileOnlyIfResolved ==
    ~profile.nil =>
        /\ resolvedFor = kubeContext
        /\ profile = resolveProfile(kubeContext, NoProfile, mkFound, TRUE, env).profile

\* a step that is IsMinikube(k) with k the stored kubeContext returns
\* isMinikube, runs no detection and changes no field
CachedAnswer ==
    (mkRet'.call = "IsMinikube" /\ mkRet'.arg = kubeContext)
        => /\ mkRet'.value = isMinikube
           /\ ~mkRet'.detected
           /\ UNCHANGED <<kubeContext, isMinikube, profile, mk, findOnce, detection>>

\* C22: after any sequence of IsMinikube and UseDockerEnv calls on a
\* clientImpl, isMinikube is true only if the most recent detection run for
\* the stored kubeContext succeeded, profile is non-nil only if it was
\* resolved for the stored kubeContext, and IsMinikube(k) with k the stored
\* kubeContext returns isMinikube without running the detection and without
\* changing a field.
C22_CachedDetection ==
    /\ [](IsMinikubeOnlyIfDetected /\ ProfileOnlyIfResolved)
    /\ [][CachedAnswer]_vars

\* IsMinikube was called with the stored kubeContext and answered true from
\* the fields, after a detection that resolved a profile for that context
C22_Witness ==
    /\ mkRet = Returned("IsMinikube", kubeContext, TRUE, FALSE, NoCmd, FALSE)
    /\ isMinikube
    /\ kubeContext = "minikube"
    /\ profile = TwoNodes
    /\ detection = [ran |-> TRUE, ctx |-> "minikube", ok |-> TRUE]
    /\ "gke" \in DOMAIN env.kubeConfig.Contexts

\* C23: when the minikube executable is not on PATH, every call of
\* minikubeExec returns an error and no command, whatever the version lookup
\* returns; a command is returned only when mk.path names an executable that
\* was located.
C23_NoCommandWithoutBinary ==
    mkRet.call = "MinikubeExec" =>
        /\ env.lookPath = "missing" => (mkRet.err /\ mkRet.cmd.nil)
        /\ ~mkRet.cmd.nil => (env.lookPath = "found" /\ mkRet.cmd.Path = MinikubePath
                              /\ mk.path = MinikubePath)

(***************************************************************************)
(* comparisonstats (hack/comparisonstats): main and validateArgs.          *)
(* Positions are Go's, from 0: Arg(i) is flag.Args()[i].                   *)
(***************************************************************************)
\* the longest argument list
MaxArgs == 5

\* const numBinaries
numBinaries == 2

\* the words of the command line
ArgWords == { "skaffold", "app", "main.go" }

\* flag.Args()[i]
Arg(a, i) == a[i + 1]

\* a[lo:hi]
Slice(a, lo, hi) == SubSeq(a, lo + 1, hi)

\* filepath.Join("../../examples/", exampleAppName)
ExampleDir(app) == << "..", "..", "examples", app >>

\* filepath.Join("../../examples/", exampleAppName, exampleSrcFile)
ExampleFile(app, src) == << "..", "..", "examples", app, src >>

\* the path of a binary, as given
BinPath(word) == << word >>

\* the files there may be
FileSets ==
    { fs \in SUBSET { BinPath("skaffold"), BinPath("app"), ExampleDir("app"),
                      ExampleFile("app", "main.go") } :
        ExampleFile("app", "main.go") \in fs => ExampleDir("app") \in fs }

\* os.Stat(path) returns no error
Stat(fs, path) == path \in fs

\* validateBinaries: the error, and the paths it called os.Stat on; it
\* stops at the first path that is not there
validateBinaries(fs, binpaths) ==
    LET missing == { i \in DOMAIN binpaths : ~Stat(fs, BinPath(binpaths[i])) }
        stop == IF missing = {} THEN Len(binpaths)
                ELSE CHOOSE i \in missing : \A j \in missing : i <= j IN
    [err |-> missing # {},
     checked |-> { BinPath(binpaths[i]) : i \in 1..stop }]

\* validateExampleAppNameAndSrcFile
validateExampleAppNameAndSrcFile(fs, exampleAppName, exampleSrcFile) ==
    IF ~Stat(fs, ExampleDir(exampleAppName)) THEN TRUE
    ELSE ~Stat(fs, ExampleFile(exampleAppName, exampleSrcFile))

\* validateArgs: "fatal" when logrus.Fatalf ends the process, else "err" or
\* "nil", and the paths validateBinaries checked
validateArgs(fs, a) ==
    IF Len(a) < numBinaries + 1 THEN [ret |-> "fatal", checked |-> {}]
    ELSE LET bins == validateBinaries(fs, Slice(a, 1, Len(a) - 2)) IN
         IF bins.err THEN [ret |-> "err", checked |-> bins.checked]
         ELSE IF validateExampleAppNameAndSrcFile(fs, Arg(a, Len(a) - 2), Arg(a, Len(a) - 1))
         THEN [ret |-> "err", checked |-> bins.checked]
         ELSE [ret |-> "nil", checked |-> bins.checked]

NoConf == [ExampleAppName |-> "", ExampleSrcFile |-> ""]

ArgsIdle ==
    /\ args = <<>>
    /\ files = {}
    /\ apc = "idle"
    /\ statted = {}
    /\ validated = "none"
    /\ conf = NoConf
    /\ ran = <<>>

\* main after flag.Parse()
ArgsInit ==
    /\ args \in SeqsUpTo(ArgWords, MaxArgs)
    /\ files \in FileSets
    /\ apc = "validate"
    /\ statted = {}
    /\ validated = "none"
    /\ conf = NoConf
    /\ ran = <<>>

\* if err := validateArgs(flag.Args()); err != nil { logrus.Fatal(err) }
ValidateArgs ==
    /\ apc = "validate"
    /\ LET v == validateArgs(files, args) IN
         /\ validated' = v.ret
         /\ statted' = v.checked
         /\ apc' = IF v.ret = "nil" THEN "names" ELSE "fatal"
    /\ UNCHANGED <<args, files, conf, ran>>
    /\ UNCHANGED <<loopVars, runVars, strVars, printVars, ruleVars, orderVars, clusterVars>>

\* conf.ExampleAppName = flag.Args()[2]; conf.ExampleSrcFile = flag.Args()[3]:
\* an index out of range panics
ReadNames ==
    /\ apc = "names"
    /\ IF Len(args) <= 3
       THEN /\ apc' = "panic"
            /\ conf' = IF Len(args) = 3
                       THEN [conf EXCEPT !.ExampleAppName = Arg(args, 2)]
                       ELSE conf
       ELSE /\ apc' = "yaml"
            /\ conf' = [ExampleAppName |-> Arg(args, 2), ExampleSrcFile |-> Arg(args, 3)]
    /\ UNCHANGED <<args, files, statted, validated, ran>>
    /\ UNCHANGED <<loopVars, runVars, strVars, printVars, ruleVars, orderVars, clusterVars>>

\* the yaml input file: not given, or read and unmarshalled, or one of the
\* two fails and logrus.Fatalf ends the process.  conf is handed to
\* yaml.Unmarshal by value, so conf stays as it is.
ReadYaml ==
    /\ apc = "yaml"
    /\ \E outcome \in { "unset", "read", "fatal" } :
           apc' = IF outcome = "fatal" THEN "fatal" ELSE "run"
    /\ UNCHANGED <<args, files, statted, validated, conf, ran>>
    /\ UNCHANGED <<loopVars, runVars, strVars, printVars, ruleVars, orderVars, clusterVars>>

\* one round of the loop over the binaries: skaffoldBinaryPath is
\* flag.Args()[i]; devrunner.Dev and events.ParseEventDuration may fail, and
\* so does os.Stat of a binary that is not there: logrus.Fatal
RunBinary ==
    /\ apc = "run"
    /\ Len(ran) < numBinaries
    /\ LET skaffoldBinaryPath == Arg(args, Len(ran)) IN
       \E devOk \in BOOLEAN :
           IF devOk /\ Stat(files, BinPath(skaffoldBinaryPath))
           THEN /\ ran' = Append(ran, skaffoldBinaryPath)
                /\ apc' = apc
           ELSE /\ ran' = ran
                /\ apc' = "fatal"
    /\ UNCHANGED <<args, files, statted, validated, conf>>
    /\ UNCHANGED <<loopVars, runVars, strVars, printVars, ruleVars, orderVars, clusterVars>>

\* the summary is logged and written; main returns
Summary ==
    /\ apc = "run"
    /\ Len(ran) = numBinaries
    /\ apc' = "done"
    /\ UNCHANGED <<args, files, statted, validated, conf, ran>>
    /\ UNCHANGED <<loopVars, runVars, strVars, printVars, ruleVars, orderVars, clusterVars>>

ArgsNext ==
    \/ ValidateArgs
    \/ ReadNames
    \/ ReadYaml
    \/ RunBinary
    \/ Summary

(***************************************************************************)
(* Properties of validateArgs                                              *)
(***************************************************************************)
\* C24: when validateArgs returns nil, the two binary paths main runs later
\* (flag.Args()[0] and flag.Args()[1]) were checked to exist, and every
\* position main reads (0 to 3) is within the argument list.
C24_ValidatedArgsCoverMain ==
    validated = "nil" =>
        /\ Len(args) >= 4
        /\ \A i \in 0..(numBinaries - 1) :
               /\ BinPath(Arg(args, i)) \in statted
               /\ Stat(files, BinPath(Arg(args, i)))

(***************************************************************************)
(* Specifications                                                          *)
(***************************************************************************)
\* a run of GetSkaffoldYamlsLintResults
Init == RunInit /\ StrIdle /\ PrintIdle /\ RuleIdle /\ OrderIdle
    /\ ClusterIdle /\ ArgsIdle
Next == RunNext
Spec == Init /\ [][Next]_vars

\* SuggestRecsViaStringEquals on a Dockerfile, then a diff for each recommendation
InitStringEquals == StrInit /\ LoopIdle /\ RunIdle /\ PrintIdle /\ RuleIdle /\ OrderIdle
    /\ ClusterIdle /\ ArgsIdle
SpecStringEquals == InitStringEquals /\ [][StrNext]_vars

\* a run of PrintDockerfilesList
InitPrint == PrintInit /\ RunIdle /\ StrIdle /\ RuleIdle /\ OrderIdle
    /\ ClusterIdle /\ ArgsIdle
SpecPrint == InitPrint /\ [][PrintNext]_vars

\* YamlFieldLinter.Lint over skaffoldYamlRules
InitRules == RuleInit /\ LoopIdle /\ RunIdle /\ StrIdle /\ PrintIdle /\ OrderIdle
    /\ ClusterIdle /\ ArgsIdle
SpecRules == InitRules /\ [][RuleNext]_vars

\* YamlFieldLinter.Lint over the SkaffoldYamlSyncPython rule alone
InitSyncPythonOnly == SyncPythonOnlyInit /\ LoopIdle /\ RunIdle /\ StrIdle /\ PrintIdle /\ OrderIdle
    /\ ClusterIdle /\ ArgsIdle
SpecSyncPythonOnly == InitSyncPythonOnly /\ [][RuleNext]_vars

\* two runs of GetSkaffoldYamlsLintResults, the units in two orders
InitOrder == OrderInit /\ LoopIdle /\ RunIdle /\ StrIdle /\ PrintIdle /\ RuleIdle
    /\ ClusterIdle /\ ArgsIdle
SpecOrder == InitOrder /\ [][OrderNext]_vars

\* a clientImpl and the calls of its methods
InitCluster == ClusterInit /\ LoopIdle /\ RunIdle /\ StrIdle /\ PrintIdle /\ RuleIdle
    /\ OrderIdle /\ ArgsIdle
SpecCluster == InitCluster /\ [][ClusterNext]_vars
\* a run of main of comparisonstats
InitArgs == ArgsInit /\ LoopIdle /\ RunIdle /\ StrIdle /\ PrintIdle /\ RuleIdle
    /\ OrderIdle /\ ClusterIdle
SpecArgs == InitArgs /\ [][ArgsNext]_vars

====
